---- MODULE Spec2Model ----
(***************************************************************************)
(* A model of cappa's type-to-parser derivation (cappa/annotation.py) and  *)
(* of the Command schema life cycle (cappa/command.py): collection, meta   *)
(* actions, result mapping and parse_command.                              *)
(*                                                                         *)
(* Python strings are sequences of one-character strings, so that the      *)
(* conversions int(), float(), str() and the dash-case conversion are      *)
(* computed character by character.                                        *)
(***************************************************************************)
EXTENDS Integers, Sequences, FiniteSets, TLC

(***************************************************************************)
(* The state.  Six machines share the module;  each specification moves   *)
(* the variables of one of them and leaves the others idle.                *)
(***************************************************************************)
\* the derivation engine: an annotation, a value, and the parser built and called
VARIABLES annotation, value, handler, parser, outcome, pc
\* the life cycle of Command objects
VARIABLES heap, last
\* one run of a collected command: the call made and what it produced
VARIABLES run_command, run_call, run_result

pvars == <<annotation, value, handler, parser, outcome, pc>>
cvars == <<heap, last>>
\* one parse of tests/subcommand/test_method.py: the argv and what came of it
VARIABLES method_argv, method_result

rvars == <<run_command, run_call, run_result>>
\* one use of a CLI class, by parse or by the front-end: what was handed in,
\* the Commands Command.collect was called on, the app and the form
VARIABLES web_cls, web_collected, web_app, web_form

mvars == <<method_argv, method_result>>
wvars == <<web_cls, web_collected, web_app, web_form>>
\* one call of find_annotations: the type view, the kind and what came back
VARIABLES find_view, find_kind, find_result

fvars == <<find_view, find_kind, find_result>>
vars == <<pvars, cvars, rvars, mvars, wvars, fvars>>

(***************************************************************************)
(* Bounds of the model.                                                    *)
(***************************************************************************)
\* longest raw command-line token
MaxLen == 2
\* longest list value handed to a parser
MaxList == 2

\* characters raw tokens are made of: a digit, a sign and a letter
Chars == {"1", "-", "a"}

Digits == {"0", "1", "2", "3", "4", "5", "6", "7", "8", "9"}

DigitVal(c) ==
  CASE c = "0" -> 0 [] c = "1" -> 1 [] c = "2" -> 2 [] c = "3" -> 3
    [] c = "4" -> 4 [] c = "5" -> 5 [] c = "6" -> 6 [] c = "7" -> 7
    [] c = "8" -> 8 [] c = "9" -> 9

DigitChar(d) ==
  CASE d = 0 -> "0" [] d = 1 -> "1" [] d = 2 -> "2" [] d = 3 -> "3"
    [] d = 4 -> "4" [] d = 5 -> "5" [] d = 6 -> "6" [] d = 7 -> "7"
    [] d = 8 -> "8" [] d = 9 -> "9"

Strings(n) == UNION {[1..k -> Chars] : k \in 0..n}

(***************************************************************************)
(* Python values: a type tag and a payload.                                *)
(***************************************************************************)
PNone == [t |-> "NoneType", v |-> <<>>]
PStr(s) == [t |-> "str", v |-> s]
PInt(n) == [t |-> "int", v |-> n]
PFloat(n) == [t |-> "float", v |-> n]
PBool(b) == [t |-> "bool", v |-> b]
PList(s) == [t |-> "list", v |-> s]
PTuple(s) == [t |-> "tuple", v |-> s]
PSet(s) == [t |-> "set", v |-> s]
\* an instance of a user class built from one constructor argument
PObj(cls, arg) == [t |-> "obj", v |-> <<cls, arg>>]
\* an open file handle: FileMode(mode)(path)
PFile(mode, path) == [t |-> "file", v |-> <<mode, path>>]

(***************************************************************************)
(* The outcome of calling a parser: a returned value or a raised           *)
(* exception (its class and its str()), and, for a union parser, the       *)
(* member parsers it called, in order.                                     *)
(***************************************************************************)
Ok(val) == [ok |-> TRUE, val |-> val, exc |-> "", msg |-> <<>>, calls |-> <<>>]
Raise(exc, msg) == [ok |-> FALSE, val |-> PNone, exc |-> exc, msg |-> msg, calls |-> <<>>]

(***************************************************************************)
(* Python's builtin conversions, as far as the value universe goes.        *)
(***************************************************************************)
IsDigits(s) == Len(s) > 0 /\ \A i \in 1..Len(s) : s[i] \in Digits

\* int(str) and float(str) accept an optional sign followed by digits
IsIntLiteral(s) ==
  \/ IsDigits(s)
  \/ Len(s) > 1 /\ s[1] \in {"-", "+"} /\ IsDigits(Tail(s))

RECURSIVE DigitsValue(_)
DigitsValue(s) ==
  IF s = <<>> THEN 0
  ELSE 10 * DigitsValue(SubSeq(s, 1, Len(s) - 1)) + DigitVal(s[Len(s)])

IntOfStr(s) ==
  IF s[1] = "-" THEN 0 - DigitsValue(Tail(s))
  ELSE IF s[1] = "+" THEN DigitsValue(Tail(s))
  ELSE DigitsValue(s)

RECURSIVE NatToStr(_)
NatToStr(n) ==
  IF n < 10 THEN <<DigitChar(n)>>
  ELSE NatToStr(n \div 10) \o <<DigitChar(n % 10)>>

IntToStr(n) == IF n < 0 THEN <<"-">> \o NatToStr(0 - n) ELSE NatToStr(n)

\* str(x) and repr(x)
RECURSIVE PyStr(_), PyRepr(_), JoinRepr(_)
PyStr(x) ==
  CASE x.t = "str" -> x.v
    [] x.t = "NoneType" -> <<"N", "o", "n", "e">>
    [] x.t = "int" -> IntToStr(x.v)
    [] x.t = "float" -> IntToStr(x.v) \o <<".", "0">>
    [] x.t = "bool" -> IF x.v THEN <<"T", "r", "u", "e">> ELSE <<"F", "a", "l", "s", "e">>
    [] x.t = "list" -> <<"[">> \o JoinRepr(x.v) \o <<"]">>
    [] x.t = "tuple" ->
         <<"(">> \o JoinRepr(x.v) \o (IF Len(x.v) = 1 THEN <<",">> ELSE <<>>) \o <<")">>
    [] OTHER -> <<"<", x.t, ">">>
PyRepr(x) == IF x.t = "str" THEN <<"'">> \o x.v \o <<"'">> ELSE PyStr(x)
JoinRepr(s) ==
  IF s = <<>> THEN <<>>
  ELSE IF Len(s) = 1 THEN PyRepr(s[1])
  ELSE PyRepr(s[1]) \o <<",", " ">> \o JoinRepr(Tail(s))

\* bool(x): truthiness
PyTruth(x) ==
  CASE x.t = "NoneType" -> FALSE
    [] x.t = "bool" -> x.v
    [] x.t \in {"int", "float"} -> x.v # 0
    [] x.t \in {"str", "list", "tuple"} -> x.v # <<>>
    [] x.t = "set" -> x.v # {}
    [] OTHER -> TRUE

IntLiteralError(s) ==
  <<"invalid literal for int() with base 10: ">> \o PyRepr(PStr(s))
FloatLiteralError(s) ==
  <<"could not convert string to float: ">> \o PyRepr(PStr(s))

\* int(x)
PyInt(x) ==
  CASE x.t = "str" ->
         IF IsIntLiteral(x.v) THEN Ok(PInt(IntOfStr(x.v)))
         ELSE Raise("ValueError", IntLiteralError(x.v))
    [] x.t \in {"int", "float"} -> Ok(PInt(x.v))
    [] x.t = "bool" -> Ok(PInt(IF x.v THEN 1 ELSE 0))
    [] OTHER -> Raise("TypeError", <<"int() argument must be a string or a real number">>)

\* float(x)
PyFloat(x) ==
  CASE x.t = "str" ->
         IF IsIntLiteral(x.v) THEN Ok(PFloat(IntOfStr(x.v)))
         ELSE Raise("ValueError", FloatLiteralError(x.v))
    [] x.t \in {"int", "float"} -> Ok(PFloat(x.v))
    [] x.t = "bool" -> Ok(PFloat(IF x.v THEN 1 ELSE 0))
    [] OTHER -> Raise("TypeError", <<"float() argument must be a string or a real number">>)

\* the number a numeric value stands for in ==
IsNumber(x) == x.t \in {"int", "float", "bool"}
NumberOf(x) == IF x.t = "bool" THEN (IF x.v THEN 1 ELSE 0) ELSE x.v

\* x == y
PyEq(x, y) ==
  IF IsNumber(x) /\ IsNumber(y) THEN NumberOf(x) = NumberOf(y)
  ELSE x.t = y.t /\ x.v = y.v

\* hash(x) raises TypeError for the mutable containers
Hashable(x) == x.t \notin {"list", "set"}

\* iter(x): the elements a for loop sees, or TypeError
Iterable(x) == x.t \in {"str", "list", "tuple", "set"}
ItemsOf(x) ==
  CASE x.t = "str" -> [i \in 1..Len(x.v) |-> PStr(<<x.v[i]>>)]
    [] x.t \in {"list", "tuple"} -> x.v
    [] OTHER -> <<>>

(***************************************************************************)
(* Type annotations as type_lens.TypeView presents them to parse_value:    *)
(* the origin (a Literal, a Union or a plain or generic class), the class  *)
(* name, the classes it derives from (itself included), the type           *)
(* arguments and, for a user class, the exception its constructor raises   *)
(* for each type of argument ("" when it accepts it).                      *)
(***************************************************************************)
NoRaises == [k \in {} |-> ""]

Cls(name, bases, args) ==
  [origin |-> "class", name |-> name, bases |-> bases, args |-> args,
   variadic |-> FALSE, raises |-> NoRaises]

StrT == Cls("str", {"str"}, <<>>)
BoolT == Cls("bool", {"bool", "int"}, <<>>)
IntT == Cls("int", {"int"}, <<>>)
FloatT == Cls("float", {"float"}, <<>>)
NoneT == Cls("NoneType", {"NoneType"}, <<>>)
TextIOT == Cls("TextIO", {"TextIO"}, <<>>)
BinaryIOT == Cls("BinaryIO", {"BinaryIO"}, <<>>)
ListOf(a) == Cls("list", {"list"}, <<a>>)
SetOf(a) == Cls("set", {"set"}, <<a>>)
TupleOf(as) == Cls("tuple", {"tuple"}, as)
\* tuple[a, ...]
VarTupleOf(a) == [TupleOf(<<a>>) EXCEPT !.variadic = TRUE]
LiteralOf(vals) ==
  [origin |-> "Literal", name |-> "Literal", bases |-> {}, args |-> vals,
   variadic |-> FALSE, raises |-> NoRaises]
UnionOf(as) ==
  [origin |-> "Union", name |-> "Union", bases |-> {}, args |-> as,
   variadic |-> FALSE, raises |-> NoRaises]

ValueTags == {"NoneType", "str", "int", "float", "bool", "list", "tuple", "set", "obj", "file"}

\* a user class: its bases and what its constructor raises per argument type
UserCls(name, bases, raises) ==
  [Cls(name, {name} \cup bases, <<>>) EXCEPT
     !.raises = [k \in ValueTags |-> IF k \in DOMAIN raises THEN raises[k] ELSE ""]]

\* accepts any argument
WrapT == UserCls("Wrap", {}, NoRaises)
\* accepts strings only, like pathlib.Path
StrictT == UserCls("Strict", {}, [k \in ValueTags \ {"str"} |-> "TypeError"])
\* a constructor that looks its argument up and fails with KeyError
FragileT == UserCls("Fragile", {}, [k \in {"str", "NoneType"} |-> "KeyError"])
\* rejects strings with ValueError
PickyT == UserCls("Picky", {}, [k \in {"str"} |-> "ValueError"])

is_literal(ann) == ann.origin = "Literal"

is_union(ann) == ann.origin = "Union"

is_none_type(ann) == ann.origin = "class" /\ ann.name = "NoneType"

\* TypeView.is_subtype_of: a union is a subtype when every member is
RECURSIVE is_subtype_of(_, _)
is_subtype_of(ann, types) ==
  CASE ann.origin = "Union" ->
         \A i \in 1..Len(ann.args) : is_subtype_of(ann.args[i], types)
    [] ann.origin = "Literal" -> FALSE
    [] OTHER -> ann.bases \cap types # {}

(***************************************************************************)
(* parse_value: which function handles an annotation.                      *)
(***************************************************************************)
HandlerFileIOFirst(ann) ==
  IF is_literal(ann) THEN "parse_literal"
  ELSE IF is_union(ann) THEN "parse_union"
  ELSE IF is_subtype_of(ann, {"TextIO", "BinaryIO"}) THEN "parse_file_io"
  ELSE IF is_subtype_of(ann, {"str", "bool", "int", "float"}) THEN "annotation"
  ELSE IF is_none_type(ann) THEN "parse_none"
  ELSE IF is_subtype_of(ann, {"list"}) THEN "parse_list"
  ELSE IF is_subtype_of(ann, {"set"}) THEN "parse_set"
  ELSE IF is_subtype_of(ann, {"tuple"}) THEN "parse_tuple"
  ELSE "annotation"

Handler(ann) ==
  IF is_literal(ann) THEN "parse_literal"
  ELSE IF is_union(ann) THEN "parse_union"
  ELSE IF is_subtype_of(ann, {"str", "bool", "int", "float"}) THEN "annotation"
  ELSE IF is_none_type(ann) THEN "parse_none"
  ELSE IF is_subtype_of(ann, {"list"}) THEN "parse_list"
  ELSE IF is_subtype_of(ann, {"set"}) THEN "parse_set"
  ELSE IF is_subtype_of(ann, {"tuple"}) THEN "parse_tuple"
  ELSE IF is_subtype_of(ann, {"TextIO", "BinaryIO"}) THEN "parse_file_io"
  ELSE "annotation"

(***************************************************************************)
(* type_priority and the sort key of parse_union.  The table is keyed by   *)
(* Python objects: the value None, the value Ellipsis and four classes.    *)
(* A member of a Union is a type object; typing stores the class NoneType  *)
(* for a None member, which is not the key None.                           *)
(***************************************************************************)
TypePriorityKeys == {"None", "Ellipsis", "float", "int", "bool", "str"}

type_priority(k) ==
  CASE k = "None" -> 0
    [] k = "Ellipsis" -> 1
    [] k = "float" -> 2
    [] k = "int" -> 3
    [] k = "bool" -> 4
    [] k = "str" -> 5

\* the object a Union member is, as a dictionary key
ObjectKey(ann) ==
  IF ann.origin = "class" /\ ann.args = <<>> THEN ann.name ELSE "alias"

type_priority_key(ann) ==
  IF ObjectKey(ann) \in TypePriorityKeys THEN type_priority(ObjectKey(ann)) ELSE 1

\* sorted(args, key=type_priority_key): a stable insertion sort
RECURSIVE InsertByKey(_, _)
InsertByKey(a, s) ==
  IF s = <<>> THEN <<a>>
  ELSE IF type_priority_key(s[Len(s)]) <= type_priority_key(a) THEN Append(s, a)
  ELSE Append(InsertByKey(a, SubSeq(s, 1, Len(s) - 1)), s[Len(s)])

RECURSIVE SortedByPriority(_)
SortedByPriority(args) ==
  IF args = <<>> THEN <<>>
  ELSE InsertByKey(args[Len(args)], SortedByPriority(SubSeq(args, 1, Len(args) - 1)))

(***************************************************************************)
(* The parsers parse_value builds.  A parser is the closure the code       *)
(* returns: the name of the inner function (or "annotation" when the       *)
(* annotation itself is the callable), the annotation it closes over and   *)
(* the member or element parsers it built eagerly.                         *)
(***************************************************************************)
Parser(fn, ann, mappers) == [fn |-> fn, ann |-> ann, mappers |-> mappers]

\* parse_list and parse_set read inner_types[0] while building the parser
NoInnerType(ann) == Parser("IndexError", ann, <<>>)

RECURSIVE parse_value(_)
parse_union(ann) ==
  LET sorted == SortedByPriority(ann.args)
      mappers == [i \in 1..Len(sorted) |-> parse_value(sorted[i])]
  IN  IF \E i \in 1..Len(mappers) : mappers[i].fn = "IndexError"
      THEN NoInnerType(ann)
      ELSE Parser("union_mapper", ann, mappers)

parse_literal(ann) == Parser("literal_mapper", ann, <<>>)

parse_none(ann) == Parser("map_none", ann, <<>>)

parse_list(ann) ==
  IF ann.args = <<>> THEN NoInnerType(ann)
  ELSE LET inner == parse_value(ann.args[1])
       IN  IF inner.fn = "IndexError" THEN NoInnerType(ann)
           ELSE Parser("list_mapper", ann, <<inner>>)

parse_set(ann) ==
  IF ann.args = <<>> THEN NoInnerType(ann)
  ELSE LET inner == parse_value(ann.args[1])
       IN  IF inner.fn = "IndexError" THEN NoInnerType(ann)
           ELSE Parser("set_mapper", ann, <<inner>>)

parse_tuple(ann) ==
  IF ann.variadic
  THEN LET list_mapper == parse_list(ListOf(ann.args[1]))
       IN  IF list_mapper.fn = "IndexError" THEN NoInnerType(ann)
           ELSE Parser("unbounded_tuple_mapper", ann, <<list_mapper>>)
  ELSE Parser("tuple_mapper", ann, <<>>)

parse_file_io(ann) == Parser("file_io_mapper", ann, <<>>)

\* parse_optional(parser): the closure over the parser it is given
parse_optional(p) == Parser("optional_mapper", p.ann, <<p>>)

parse_value(ann) ==
  LET h == Handler(ann)
  IN  CASE h = "parse_literal" -> parse_literal(ann)
        [] h = "parse_union" -> parse_union(ann)
        [] h = "parse_none" -> parse_none(ann)
        [] h = "parse_list" -> parse_list(ann)
        [] h = "parse_set" -> parse_set(ann)
        [] h = "parse_tuple" -> parse_tuple(ann)
        [] h = "parse_file_io" -> parse_file_io(ann)
        [] OTHER -> Parser("annotation", ann, <<>>)

(***************************************************************************)
(* Calling a parser.                                                       *)
(***************************************************************************)
\* the annotation itself used as a callable: a builtin or a user class
CallAnnotation(ann, x) ==
  CASE ann.name = "str" -> Ok(PStr(PyStr(x)))
    [] ann.name = "bool" -> Ok(PBool(PyTruth(x)))
    [] ann.name = "int" -> PyInt(x)
    [] ann.name = "float" -> PyFloat(x)
    [] ann.raises # NoRaises ->
         \* an Env, a prompt or an instance is an object like any other
         LET tag == IF x.t \in ValueTags THEN x.t ELSE "obj"
         IN  IF ann.raises[tag] = "" THEN Ok(PObj(ann.name, x))
             ELSE Raise(ann.raises[tag], <<ann.name, " rejects ">> \o PyRepr(x))
    [] OTHER -> Raise("TypeError", <<ann.name, " is not callable">>)

\* the first literal argument equal to x, or whose str() is x: 0 when none
FirstIndex(args, P(_)) ==
  IF \E i \in 1..Len(args) : P(args[i])
  THEN CHOOSE i \in 1..Len(args) : P(args[i]) /\ \A j \in 1..(i - 1) : ~P(args[j])
  ELSE 0

InvalidChoice(ann, x) ==
  <<"Invalid choice: '">> \o PyStr(x) \o <<"' (choose from ">>
    \o [i \in 1..Len(ann.args) |-> PyStr(ann.args[i])] \o <<")">>

\* the sentinel cappa.typing.missing
Missing == [t |-> "missing", v |-> <<>>]

\* set(annotation.args): of the arguments that are equal (1 and True) the set
\* keeps the first
unique_type_args(ann) ==
  LET kept == {i \in 1..Len(ann.args) : \A j \in 1..(i - 1) : ~PyEq(ann.args[j], ann.args[i])}
  IN  SelectSeq([i \in 1..Len(ann.args) |-> IF i \in kept THEN ann.args[i] ELSE Missing],
                LAMBDA a : a.t # "missing")

\* two arguments of the set are never both str() of one value, so the order
\* in which the set is walked does not show
literal_mapper(ann, x) ==
  LET unique == unique_type_args(ann)
  IN  IF ~Hashable(x) THEN Raise("TypeError", <<"unhashable type: ">> \o PyRepr(PStr(<<x.t>>)))
      ELSE IF \E i \in 1..Len(unique) : PyEq(unique[i], x) THEN Ok(x)
      ELSE LET k == FirstIndex(unique, LAMBDA a : x.t = "str" /\ PyStr(a) = x.v)
           IN  IF k # 0 THEN Ok(unique[k])
               ELSE Raise("ValueError", InvalidChoice(ann, x))

\* a parser for None that takes every false value for None
map_none_when_false(x) == IF ~PyTruth(x) THEN Ok(PNone) ELSE Raise("ValueError", PyStr(x))

map_none(x) == IF x.t = "NoneType" THEN Ok(PNone) ELSE Raise("ValueError", PyStr(x))

\* FileMode()(value): the default mode is "r", "rb" for a BinaryIO
file_io_mapper(ann, x) ==
  Ok(PFile(IF is_subtype_of(ann, {"BinaryIO"}) THEN "rb" ELSE "r", x))

\* backend_type: the text a union's error message shows for a member
backend_type(ann) ==
  IF is_literal(ann) THEN ann.args[1]
  ELSE PStr(<<"<", ann.name, ">">>)

CouldNotParse(ann, x) ==
  LET shown == [i \in 1..Len(ann.args) |-> backend_type(ann.args[i])]
  IN  IF \E i \in 1..Len(shown) : shown[i].t # "str"
      THEN Raise("TypeError", <<"sequence item: expected str instance">>)
      ELSE Raise("ValueError",
                 <<"Could not parse '">> \o PyStr(x) \o <<"' given options: ">>
                   \o [i \in 1..Len(shown) |-> shown[i].v])

RECURSIVE Apply(_, _), MapItems(_, _), union_mapper(_, _, _), tuple_mapper(_, _, _)
RECURSIVE MapItemsSkipFailed(_, _)
RECURSIVE tuple_mapper_strict(_, _, _)

\* a comprehension that leaves out the elements the parser rejects
MapItemsSkipFailed(inner, items) ==
  IF items = <<>> THEN Ok(PList(<<>>))
  ELSE LET head == Apply(inner, items[1])
           rest == MapItemsSkipFailed(inner, Tail(items))
       IN  IF ~head.ok THEN rest
           ELSE Ok(PList(<<head.val>> \o rest.val.v))

\* [inner_mapper(v) for v in value]: the mapped elements, or the first error
MapItems(inner, items) ==
  IF items = <<>> THEN Ok(PList(<<>>))
  ELSE LET head == Apply(inner, items[1])
       IN  IF ~head.ok THEN [head EXCEPT !.calls = <<>>]
           ELSE LET rest == MapItems(inner, Tail(items))
                IN  IF ~rest.ok THEN rest
                    ELSE Ok(PList(<<head.val>> \o rest.val.v))

\* the loop of union_mapper from member i on; calls lists the members tried
union_mapper(p, x, i) ==
  IF i > Len(p.mappers) THEN CouldNotParse(p.ann, x)
  ELSE LET r == Apply(p.mappers[i], x)
       IN  IF r.ok \/ r.exc \notin {"ValueError", "TypeError"}
           THEN [r EXCEPT !.calls = <<i>>]
           ELSE LET rest == union_mapper(p, x, i + 1)
                IN  [rest EXCEPT !.calls = <<i>> \o rest.calls]

\* zip(inner_types, value, strict=True): the lengths have to agree
tuple_mapper_strict(ann, items, i) ==
  IF i > Len(ann.args) /\ i > Len(items) THEN Ok(PList(<<>>))
  ELSE IF i > Len(ann.args) \/ i > Len(items)
       THEN Raise("ValueError", <<"zip() arguments differ in length">>)
  ELSE LET head == Apply(parse_value(ann.args[i]), items[i])
       IN  IF ~head.ok THEN [head EXCEPT !.calls = <<>>]
           ELSE LET rest == tuple_mapper_strict(ann, items, i + 1)
                IN  IF ~rest.ok THEN rest
                    ELSE Ok(PList(<<head.val>> \o rest.val.v))

\* zip(inner_types, value): pairs up to the shorter of the two
tuple_mapper(ann, items, i) ==
  IF i > Len(ann.args) \/ i > Len(items) THEN Ok(PList(<<>>))
  ELSE LET head == Apply(parse_value(ann.args[i]), items[i])
       IN  IF ~head.ok THEN [head EXCEPT !.calls = <<>>]
           ELSE LET rest == tuple_mapper(ann, items, i + 1)
                IN  IF ~rest.ok THEN rest
                    ELSE Ok(PList(<<head.val>> \o rest.val.v))

NotIterable(x) ==
  Raise("TypeError", <<"'", x.t, "' object is not iterable">>)

SeqToSet(s) == {s[i] : i \in 1..Len(s)}

Apply(p, x) ==
  CASE p.fn = "literal_mapper" -> literal_mapper(p.ann, x)
    [] p.fn = "union_mapper" -> union_mapper(p, x, 1)
    [] p.fn = "annotation" -> CallAnnotation(p.ann, x)
    [] p.fn = "map_none" -> map_none(x)
    [] p.fn = "list_mapper" ->
         IF Iterable(x) THEN MapItems(p.mappers[1], ItemsOf(x)) ELSE NotIterable(x)
    [] p.fn = "set_mapper" ->
         IF ~Iterable(x) THEN NotIterable(x)
         ELSE LET r == MapItems(p.mappers[1], ItemsOf(x))
              IN  IF r.ok THEN Ok(PSet(SeqToSet(r.val.v))) ELSE r
    [] p.fn = "unbounded_tuple_mapper" ->
         LET r == Apply(p.mappers[1], x)
         IN  IF r.ok THEN Ok(PTuple(r.val.v)) ELSE r
    [] p.fn = "tuple_mapper" ->
         IF ~Iterable(x) THEN NotIterable(x)
         ELSE LET r == tuple_mapper(p.ann, ItemsOf(x), 1)
              IN  IF r.ok THEN Ok(PTuple(r.val.v)) ELSE r
    [] p.fn = "file_io_mapper" -> file_io_mapper(p.ann, x)
    [] p.fn = "optional_mapper" ->
         IF x = PNone THEN Ok(PNone)
         ELSE [Apply(p.mappers[1], x) EXCEPT !.calls = <<1>>]
    [] OTHER -> Raise("IndexError", <<"tuple index out of range">>)

(***************************************************************************)
(* The derivation engine as a state machine: an annotation and a value     *)
(* are given, parse_value builds the parser, the parser is called.         *)
(***************************************************************************)

\* most members a Union annotation has
MaxUnion == 3

\* user classes that derive from a builtin and a file type
StrFileT == UserCls("StrFile", {"str", "TextIO"}, NoRaises)
ListFileT == UserCls("ListFile", {"list", "BinaryIO"}, NoRaises)
TupleFileT == UserCls("TupleFile", {"tuple", "TextIO"}, NoRaises)

UnionMembers ==
  {NoneT, StrT, IntT, FloatT, BoolT, WrapT, StrictT, FragileT,
   LiteralOf(<<PStr(<<"a">>), PInt(1)>>)}

SeqsOver(S, lo, hi) == UNION {[1..k -> S] : k \in lo..hi}

Distinct(s) == \A i, j \in 1..Len(s) : i # j => s[i] # s[j]

Unions == {UnionOf(as) : as \in {s \in SeqsOver(UnionMembers, 2, MaxUnion) : Distinct(s)}}

Scalars == {StrT, IntT, FloatT, BoolT, NoneT, WrapT, StrictT, FragileT, PickyT,
            TextIOT, BinaryIOT, StrFileT, ListFileT, TupleFileT}

Literals ==
  {LiteralOf(<<PStr(<<"a">>)>>), LiteralOf(<<PInt(1), PStr(<<"a">>)>>),
   LiteralOf(<<PInt(1), PInt(11), PBool(TRUE)>>), LiteralOf(<<PNone, PStr(<<"-", "1">>)>>),
   LiteralOf(<<PBool(TRUE), PInt(1)>>)}

Elements == {StrT, IntT, UnionOf(<<IntT, NoneT>>), LiteralOf(<<PInt(1), PStr(<<"a">>)>>)}

Containers ==
  {ListOf(a) : a \in Elements} \cup {SetOf(a) : a \in Elements}
    \cup {VarTupleOf(a) : a \in Elements}
    \cup {TupleOf(as) : as \in SeqsOver({StrT, IntT}, 1, 2)}
    \cup {Cls("list", {"list"}, <<>>), UnionOf(<<ListOf(IntT), StrT>>),
          UnionOf(<<StrT, ListOf(IntT), NoneT>>),
          UnionOf(<<LiteralOf(<<PInt(1), PStr(<<"a">>)>>), NoneT>>)}

Annotations == Scalars \cup Literals \cup Containers \cup Unions

Tokens == {PStr(s) : s \in Strings(MaxLen)}

Values ==
  Tokens \cup {PNone, PInt(1), PBool(TRUE), PBool(FALSE)}
    \cup {PList(s) : s \in SeqsOver({PStr(<<"1">>), PStr(<<"a">>)}, 0, MaxList)}

NoParser == Parser("", NoneT, <<>>)
NoOutcome == Raise("", <<>>)

ParseInit ==
  /\ annotation \in Annotations
  /\ value \in Values
  /\ handler = ""
  /\ parser = NoParser
  /\ outcome = NoOutcome
  /\ pc = "start"

\* parser = parse_value(annotation)
BuildParser ==
  /\ pc = "start"
  /\ handler' = Handler(annotation)
  /\ parser' = parse_value(annotation)
  /\ pc' = IF parser'.fn = "IndexError" THEN "failed" ELSE "built"
  /\ UNCHANGED <<annotation, value, outcome>>

\* parser = parse_optional(parser)
WrapOptional ==
  /\ pc = "built"
  /\ parser.fn # "optional_mapper"
  /\ parser' = parse_optional(parser)
  /\ UNCHANGED <<annotation, value, handler, outcome, pc>>

\* outcome = parser(value)
CallParser ==
  /\ pc = "built"
  /\ outcome' = Apply(parser, value)
  /\ pc' = "called"
  /\ UNCHANGED <<annotation, value, handler, parser>>

(***************************************************************************)
(* Properties of the derivation engine (checked under SpecParse).          *)
(***************************************************************************)
\* the shapes of an annotation in the order the documentation lists them
ShapeOrder == <<"Literal", "Union", "primitive", "None", "list", "set", "tuple", "file">>

MatchesShape(ann, shape) ==
  CASE shape = "Literal" -> is_literal(ann)
    [] shape = "Union" -> is_union(ann)
    [] shape = "primitive" -> is_subtype_of(ann, {"str", "bool", "int", "float"})
    [] shape = "None" -> is_none_type(ann)
    [] shape = "list" -> is_subtype_of(ann, {"list"})
    [] shape = "set" -> is_subtype_of(ann, {"set"})
    [] shape = "tuple" -> is_subtype_of(ann, {"tuple"})
    [] shape = "file" -> is_subtype_of(ann, {"TextIO", "BinaryIO"})

HandlerOfShape(shape) ==
  CASE shape = "Literal" -> "parse_literal"
    [] shape = "Union" -> "parse_union"
    [] shape = "primitive" -> "annotation"
    [] shape = "None" -> "parse_none"
    [] shape = "list" -> "parse_list"
    [] shape = "set" -> "parse_set"
    [] shape = "tuple" -> "parse_tuple"
    [] shape = "file" -> "parse_file_io"

MappersOfHandler(h) ==
  CASE h = "parse_literal" -> {"literal_mapper"}
    [] h = "parse_union" -> {"union_mapper"}
    [] h = "annotation" -> {"annotation"}
    [] h = "parse_none" -> {"map_none"}
    [] h = "parse_list" -> {"list_mapper"}
    [] h = "parse_set" -> {"set_mapper"}
    [] h = "parse_tuple" -> {"tuple_mapper", "unbounded_tuple_mapper"}
    [] h = "parse_file_io" -> {"file_io_mapper"}

\* the parser parse_value built, under parse_optional when it was wrapped
DerivedParser == IF parser.fn = "optional_mapper" THEN parser.mappers[1] ELSE parser

MatchedShapes(ann) == {i \in 1..Len(ShapeOrder) : MatchesShape(ann, ShapeOrder[i])}

\* C9: parse_value hands an annotation to the handler of the earliest shape
\* it matches in the order Literal, Union, str/bool/int/float, None, list,
\* set, tuple, TextIO/BinaryIO; for a primitive, and for an annotation that
\* matches no shape, the parser is the annotation itself.
C9_ParseValuePrecedence ==
  pc # "start" =>
    LET matched == MatchedShapes(annotation)
        first == CHOOSE i \in matched : \A j \in matched : i <= j
    IN  /\ matched = {} => handler = "annotation"
        /\ matched # {} => handler = HandlerOfShape(ShapeOrder[first])
        /\ handler = "annotation" => DerivedParser = Parser("annotation", annotation, <<>>)
        /\ pc # "failed" => DerivedParser.fn \in MappersOfHandler(handler)

\* an annotation that matches two shapes has been handled and its parser called
C9_Witness ==
  /\ pc = "called"
  /\ Cardinality(MatchedShapes(annotation)) >= 2

\* the priority the documentation gives a Union member
ClaimedPriority(ann) ==
  CASE is_none_type(ann) -> 0
    [] ann = FloatT -> 2
    [] ann = IntT -> 3
    [] ann = BoolT -> 4
    [] ann = StrT -> 5
    [] OTHER -> 1

RECURSIVE ClaimedOrderFrom(_, _)
ClaimedOrderFrom(args, p) ==
  IF p > 5 THEN <<>>
  ELSE SelectSeq(args, LAMBDA a : ClaimedPriority(a) = p) \o ClaimedOrderFrom(args, p + 1)

ClaimedOrder(args) == ClaimedOrderFrom(args, 0)

\* the union parser returned what the last member it called returned, every
\* member called before it raised ValueError or TypeError
FirstSuccessReturned ==
  LET n == Len(outcome.calls)
      final == Apply(parser.mappers[outcome.calls[n]], value)
  IN  /\ n >= 1
      /\ \A k \in 1..(n - 1) :
           LET r == Apply(parser.mappers[outcome.calls[k]], value)
           IN  ~r.ok /\ r.exc \in {"ValueError", "TypeError"}
      /\ final.ok => (outcome.ok /\ outcome.val = final.val)

\* C10: the union parser tries the members in ascending priority, None (0)
\* first, then the types not in the table (1) in declaration order, then
\* float, int, bool, str, and returns the result of the first member that
\* raises neither ValueError nor TypeError without trying a later one.
C10_UnionOrderAsClaimed ==
  (pc = "called" /\ parser.fn = "union_mapper") =>
    /\ \A k \in 1..Len(outcome.calls) :
         parser.mappers[outcome.calls[k]].ann = ClaimedOrder(annotation.args)[k]
    /\ FirstSuccessReturned

\* C10, as the code behaves: the members are tried in the order of
\* sorted(args, key=type_priority_key), where NoneType has the key 1
C10_UnionOrderOfCode ==
  (pc = "called" /\ parser.fn = "union_mapper") =>
    /\ \A k \in 1..Len(outcome.calls) :
         /\ outcome.calls[k] = k
         /\ parser.mappers[k].ann = SortedByPriority(annotation.args)[k]
    /\ \A i, j \in 1..Len(parser.mappers) :
         i < j => type_priority_key(parser.mappers[i].ann) <= type_priority_key(parser.mappers[j].ann)
    /\ FirstSuccessReturned

\* every member parser raises ValueError or TypeError for the value
AllMembersReject ==
  \A k \in 1..Len(parser.mappers) :
    LET r == Apply(parser.mappers[k], value)
    IN  ~r.ok /\ r.exc \in {"ValueError", "TypeError"}

\* C11: when every member parser of a Union raises ValueError or TypeError,
\* the union parser raises ValueError "Could not parse '<value>' given
\* options: ..." with one entry per member type, whatever the member types;
\* an exception of another class raised by a member propagates at once, no
\* later member being tried.
C11_UnionFailureAsClaimed ==
  (pc = "called" /\ parser.fn = "union_mapper") =>
    /\ AllMembersReject =>
         /\ ~outcome.ok /\ outcome.exc = "ValueError"
         /\ outcome.msg = <<"Could not parse '">> \o PyStr(value) \o <<"' given options: ">>
                             \o SubSeq(outcome.msg, Len(outcome.msg) - Len(annotation.args) + 1,
                                       Len(outcome.msg))
         /\ Len(outcome.msg) = Len(PyStr(value)) + 2 + Len(annotation.args)
    /\ \A k \in 1..Len(parser.mappers) :
         LET r == Apply(parser.mappers[k], value)
         IN  (/\ ~r.ok /\ r.exc \notin {"ValueError", "TypeError"}
              /\ \A j \in 1..(k - 1) : ~Apply(parser.mappers[j], value).ok
                                        /\ Apply(parser.mappers[j], value).exc
                                             \in {"ValueError", "TypeError"})
             => (/\ ~outcome.ok /\ outcome.exc = r.exc /\ outcome.msg = r.msg
                 /\ outcome.calls = [j \in 1..k |-> j])

\* C12: the parser of Literal[a1..an] maps a value to itself when it equals
\* one of the arguments, otherwise to the argument whose str() is the value,
\* and otherwise raises ValueError "Invalid choice: ..."; so for every input
\* it raises ValueError or returns a value equal to one of a1..an.  Stated
\* for the inputs that can be looked up in a set; a list raises TypeError.
C12_LiteralAsClaimed ==
  (pc = "called" /\ parser.fn = "literal_mapper" /\ Hashable(value)) =>
    LET args == annotation.args
        equal == \E i \in 1..Len(args) : PyEq(args[i], value)
        byStr == {i \in 1..Len(args) : value.t = "str" /\ PyStr(args[i]) = value.v}
    IN  /\ equal => (outcome.ok /\ outcome.val = value)
        /\ (~equal /\ byStr # {}) =>
             (outcome.ok /\ \E i \in byStr : outcome.val = args[i])
        /\ (~equal /\ byStr = {}) =>
             (/\ ~outcome.ok /\ outcome.exc = "ValueError"
              /\ outcome.msg = InvalidChoice(annotation, value))
        /\ \/ outcome.ok /\ \E i \in 1..Len(args) : PyEq(args[i], outcome.val)
           \/ ~outcome.ok /\ outcome.exc = "ValueError"

(***************************************************************************)
(* The command schema (cappa/command.py).                                  *)
(*                                                                         *)
(* A Group is an object: oid is its identity, the other fields its         *)
(* details.  An entry of Command.arguments is an Arg or a Subcommand; one  *)
(* record shape serves both, kind tells them apart.                        *)
(***************************************************************************)
Group(oid, name, order) == [oid |-> oid, name |-> name, order |-> order]

NoGroup == Group(0, "", 0)

\* an Env whose evaluate() returns x
EnvOf(x) == [t |-> "Env", v |-> x]
\* a Prompt or Confirm which, called, returns what the user typed: x
PromptOf(x) == [t |-> "Prompt", v |-> x]
\* the raw result of the backend for a chosen subcommand: its name and options
PDict(name, args) == [t |-> "dict", v |-> <<name, args>>]

NoOptions == [k \in {} |-> 0]

Arg(field_name, names, ann, default, group) ==
  [kind |-> "Arg", field_name |-> field_name, names |-> names, action |-> "set",
   default |-> default, parse |-> parse_value(ann), group |-> group,
   short |-> FALSE, long |-> FALSE, required |-> default.t = "missing",
   options |-> NoOptions]

MetaArg(action, names) ==
  [Arg(action, names, BoolT, PBool(FALSE), Group(9, "Help", 2))
     EXCEPT !.action = action, !.long = TRUE]

Subcommand(field_name, required, options) ==
  [kind |-> "Subcommand", field_name |-> field_name, names |-> <<>>,
   action |-> "", default |-> Missing, parse |-> NoParser, group |-> NoGroup,
   short |-> FALSE, long |-> FALSE, required |-> required, options |-> options]

\* ArgAction.value_actions(): the meta actions, which carry no value
value_actions == {"help", "version", "completion"}

\* a docstring: absent, the one dataclasses generates, or a headline and a body
NoDoc == [kind |-> "none", summary |-> <<>>, body |-> <<>>]
AutoDoc == [kind |-> "auto", summary |-> <<>>, body |-> <<>>]
Doc(summary, body) == [kind |-> "text", summary |-> summary, body |-> body]

\* a class: its name, its docstring, its dataclass fields and the name given
\* to @cappa.command(name=...) when it is decorated (None otherwise)
Class(name, doc, fields, cappa_name) ==
  [name |-> name, doc |-> doc, fields |-> fields, cappa_name |-> cappa_name]

\* a dataclass field and its type hint: the annotation, the default, the
\* group and long flag of its Arg annotation
Field(name, chars, ann, default, group, long) ==
  [name |-> name, chars |-> chars, ann |-> ann, default |-> default, group |-> group,
   long |-> long, classes |-> <<>>, required |-> FALSE]

\* a field annotated Annotated[Union[classes], cappa.Subcommand]
SubcommandField(name, classes, required) ==
  [name |-> name, chars |-> <<>>, ann |-> NoneT, default |-> IF required THEN Missing ELSE PNone,
   group |-> NoGroup, long |-> FALSE, classes |-> classes, required |-> required]

\* Command(cmd_cls, arguments=..., name=...): the dataclass defaults elsewhere
Command(cmd_cls, arguments, name) ==
  [cmd_cls |-> cmd_cls, arguments |-> arguments, name |-> name,
   help |-> PNone, description |-> PNone, default_short |-> FALSE,
   default_long |-> FALSE, collected |-> FALSE]

(***************************************************************************)
(* Command.real_name: the explicit name, or the class name in dash-case.   *)
(***************************************************************************)
UpperCase == <<"A", "B", "C", "D", "E", "F", "G", "H", "I", "J", "K", "L", "M",
               "N", "O", "P", "Q", "R", "S", "T", "U", "V", "W", "X", "Y", "Z">>
LowerCase == <<"a", "b", "c", "d", "e", "f", "g", "h", "i", "j", "k", "l", "m",
               "n", "o", "p", "q", "r", "s", "t", "u", "v", "w", "x", "y", "z">>

IsUpper(c) == \E i \in 1..Len(UpperCase) : UpperCase[i] = c

\* str.lower() also lowers the uppercase letters outside A-Z
Lower(c) ==
  IF IsUpper(c) THEN LowerCase[CHOOSE i \in 1..Len(UpperCase) : UpperCase[i] = c]
  ELSE IF c = "É" THEN "é" ELSE c

\* re.sub(r"(?<!^)(?=[A-Z])", "-", cls_name).lower()
RECURSIVE DashCaseFrom(_, _)
DashCaseFrom(s, i) ==
  IF i > Len(s) THEN <<>>
  ELSE (IF i > 1 /\ IsUpper(s[i]) THEN <<"-">> ELSE <<>>)
         \o <<Lower(s[i])>> \o DashCaseFrom(s, i + 1)

real_name(command) ==
  IF command.name # PNone THEN command.name.v
  ELSE DashCaseFrom(command.cmd_cls.name, 1)

(***************************************************************************)
(* Collection.  Arg and Subcommand live in cappa/arg.py and                *)
(* cappa/subcommand.py; of their normalize and collect methods the model   *)
(* keeps what Command.collect relies on.                                   *)
(***************************************************************************)
\* Arg.normalize: the command-level default_short and default_long apply
ArgNormalize(a, default_short, default_long) ==
  [a EXCEPT !.short = a.short \/ default_short, !.long = a.long \/ default_long]

\* Arg.collect: the Args of one field
ArgCollect(field, default_short, default_long) ==
  <<ArgNormalize(
      [Arg(field.name, IF field.long THEN <<"-", "-">> \o field.chars ELSE field.chars,
           field.ann, field.default, field.group) EXCEPT !.long = field.long],
      default_short, default_long)>>

\* Command.get: the Command a class was registered with, or a fresh one
CommandGet(cls) == Command(cls, <<>>, cls.cappa_name)

\* get_doc: the docstring dataclasses generates counts as none
get_doc(cls) == IF cls.doc.kind = "auto" THEN NoDoc ELSE cls.doc

\* inspect.cleandoc(doc).split("\n", 1)
DocSummary(doc) == PStr(doc.summary)
DocBody(doc) == PStr(doc.body)

GroupsDifferByDetails(a, b) == a.name # b.name \/ a.order # b.order

\* identity != arg.group: two Groups are the same when they are one object
GroupsDiffer(a, b) == a.oid # b.oid


\* the loop of check_group_identity from entry i on: TRUE when it raises
RECURSIVE check_group_identity_from(_, _, _)
check_group_identity_from(args, i, group_identity) ==
  IF i > Len(args) THEN FALSE
  ELSE IF args[i].kind = "Subcommand"
  THEN check_group_identity_from(args, i + 1, group_identity)
  ELSE LET name == args[i].group.name
       IN  IF name \in DOMAIN group_identity
              /\ GroupsDiffer(group_identity[name], args[i].group)
           THEN TRUE
           ELSE check_group_identity_from(
                  args, i + 1,
                  [n \in DOMAIN group_identity \cup {name} |->
                     IF n = name THEN args[i].group ELSE group_identity[n]])

check_group_identity_skip_first(args) ==
  check_group_identity_from(args, 2, [n \in {} |-> NoGroup])

\* TRUE when check_group_identity(args) raises ValueError
check_group_identity(args) == check_group_identity_from(args, 1, [n \in {} |-> NoGroup])

Collected(command) == [exc |-> "", command |-> command]
CollectRaised(exc, command) == [exc |-> exc, command |-> command]

RECURSIVE collect(_)
\* Subcommand.collect: the options map each class's real name to its
\* collected Command; a later class of the same real name replaces an earlier
SubcommandCollect(field) ==
  LET cmds == [i \in 1..Len(field.classes) |-> collect(CommandGet(field.classes[i]))]
      names == {real_name(cmds[i].command) : i \in 1..Len(cmds)}
      lastOf(n) == CHOOSE i \in 1..Len(cmds) :
                     /\ real_name(cmds[i].command) = n
                     /\ \A j \in (i + 1)..Len(cmds) : real_name(cmds[j].command) # n
  IN  IF \E i \in 1..Len(cmds) : cmds[i].exc # ""
      THEN [exc |-> "ValueError", arg |-> Subcommand(field.name, field.required, NoOptions)]
      ELSE [exc |-> "",
            arg |-> Subcommand(field.name, field.required,
                               [n \in names |-> cmds[lastOf(n)].command])]

\* the arguments derived from the class fields: <<exc, arguments>>
RECURSIVE CollectFields(_, _, _)
CollectFields(command, fields, i) ==
  IF i > Len(fields) THEN [exc |-> "", arguments |-> <<>>]
  ELSE LET rest == CollectFields(command, fields, i + 1)
       IN  IF fields[i].classes # <<>>
           THEN LET sub == SubcommandCollect(fields[i])
                IN  IF sub.exc # "" THEN [exc |-> sub.exc, arguments |-> <<>>]
                    ELSE [rest EXCEPT !.arguments = <<sub.arg>> \o @]
           ELSE [rest EXCEPT !.arguments =
                   ArgCollect(fields[i], command.default_short, command.default_long) \o @]

\* the supplied arguments taken as they are
DerivedArgumentsAsGiven(command) ==
  IF command.arguments # <<>>
  THEN [exc |-> "", arguments |-> command.arguments]
  ELSE CollectFields(command, command.cmd_cls.fields, 1)

\* the arguments of a command: those supplied, normalized, or those derived
\* from the fields of its class
DerivedArguments(command) ==
  IF command.arguments # <<>>
  THEN [exc |-> "",
        arguments |->
          [i \in 1..Len(command.arguments) |->
             IF command.arguments[i].kind = "Arg"
             THEN ArgNormalize(command.arguments[i], command.default_short,
                               command.default_long)
             ELSE command.arguments[i]]]
  ELSE CollectFields(command, command.cmd_cls.fields, 1)

\* if not (command.help and command.description): the docstring is read
consults_doc(command) == ~(PyTruth(command.help) /\ PyTruth(command.description))

\* a collect that reads the docstring whatever the Command was given
collect_always_from_doc(command) ==
  LET doc == get_doc(command.cmd_cls)
      derived == DerivedArguments(command)
  IN  IF derived.exc # "" THEN CollectRaised(derived.exc, command)
      ELSE IF check_group_identity(derived.arguments) THEN CollectRaised("ValueError", command)
      ELSE Collected([command EXCEPT !.arguments = derived.arguments,
                                     !.help = DocSummary(doc),
                                     !.description = DocBody(doc)])

collect(command) ==
  LET consult == consults_doc(command)
      doc == get_doc(command.cmd_cls)
      help == IF consult /\ ~PyTruth(command.help) THEN DocSummary(doc) ELSE command.help
      description ==
        IF consult /\ ~PyTruth(command.description) THEN DocBody(doc)
        ELSE command.description
      derived == DerivedArguments(command)
  IN  IF derived.exc # "" THEN CollectRaised(derived.exc, command)
      ELSE IF check_group_identity(derived.arguments) THEN CollectRaised("ValueError", command)
      ELSE Collected([command EXCEPT !.arguments = derived.arguments,
                                     !.help = help, !.description = description])

(***************************************************************************)
(* Command.add_meta_actions.  help, version and completion are an Arg or   *)
(* None.                                                                   *)
(***************************************************************************)
NoArg == [MetaArg("none", <<>>) EXCEPT !.kind = "None"]

IsArg(a) == a.kind # "None"

RECURSIVE add_meta_actions(_, _, _, _)
\* a variant that hands all three actions down to the options
add_meta_actions_to_options(self, help, version, completion) ==
  IF self.collected THEN self
  ELSE LET arguments ==
             [i \in 1..Len(self.arguments) |->
                LET arg == self.arguments[i]
                IN  IF IsArg(help) /\ arg.kind = "Subcommand"
                    THEN [arg EXCEPT !.options =
                            [n \in DOMAIN arg.options |->
                               add_meta_actions(arg.options[n], help, version, completion)]]
                    ELSE arg]
       IN  [self EXCEPT
              !.arguments = arguments
                \o (IF IsArg(help) THEN <<help>> ELSE <<>>)
                \o (IF IsArg(version) THEN <<version>> ELSE <<>>)
                \o (IF IsArg(completion) THEN <<completion>> ELSE <<>>),
              !.collected = TRUE]

add_meta_actions(self, help, version, completion) ==
  IF self.collected THEN self
  ELSE LET arguments ==
             [i \in 1..Len(self.arguments) |->
                LET arg == self.arguments[i]
                IN  IF IsArg(help) /\ arg.kind = "Subcommand"
                    THEN [arg EXCEPT !.options =
                            [n \in DOMAIN arg.options |->
                               add_meta_actions(arg.options[n], help, NoArg, NoArg)]]
                    ELSE arg]
       IN  [self EXCEPT
              !.arguments = arguments
                \o (IF IsArg(help) THEN <<help>> ELSE <<>>)
                \o (IF IsArg(version) THEN <<version>> ELSE <<>>)
                \o (IF IsArg(completion) THEN <<completion>> ELSE <<>>),
              !.collected = TRUE]

(***************************************************************************)
(* The commands a program defines: the inputs of the model.                *)
(***************************************************************************)
\* most entries an explicit arguments list has
MaxArgs == 2
\* most Command objects alive at once
MaxObjects == 3

Positional == Group(1, "Arguments", 0)
Options == Group(2, "Options", 1)
\* a second Group object with the details of Options
OptionsTwin == Group(3, "Options", 1)
\* a Group named like Options with another order
OptionsLate == Group(4, "Options", 5)

OptionalStr == UnionOf(<<StrT, NoneT>>)

ArgPool ==
  {Arg("count", <<"c">>, IntT, Missing, Positional),
   \* a second Arg of the field count, with a parser of its own
   [Arg("count", <<"-", "-", "t">>, StrT, Missing, Positional) EXCEPT !.long = TRUE],
   [Arg("name", <<"-", "-", "n">>, OptionalStr, PNone, Options) EXCEPT !.long = TRUE],
   [Arg("level", <<"-", "-", "l">>, IntT, EnvOf(PStr(<<"1">>)), OptionsTwin) EXCEPT !.long = TRUE],
   [Arg("token", <<"-", "-", "k">>, WrapT, EnvOf(PromptOf(PStr(<<"a">>))), OptionsLate)
      EXCEPT !.long = TRUE],
   [Arg("key", <<"-", "-", "y">>, FragileT, PInt(1), Options) EXCEPT !.long = TRUE]}

FieldNames(arguments) == {arguments[i].field_name : i \in 1..Len(arguments)}

\* the dataclass an explicit arguments list belongs to: one field per field
\* name, with a default when an Arg of the field has one
ClassOf(name, arguments) ==
  LET names == FieldNames(arguments)
      order == CHOOSE s \in [1..Cardinality(names) -> names] :
                 \A i, j \in 1..Cardinality(names) : i # j => s[i] # s[j]
      argOf(n) == CHOOSE i \in 1..Len(arguments) : arguments[i].field_name = n
  IN  Class(name, AutoDoc,
            [i \in 1..Len(order) |->
               Field(order[i], <<>>, NoneT, arguments[argOf(order[i])].default, NoGroup, FALSE)],
            PNone)

ExplicitCommands ==
  {Command(ClassOf(<<"M", "a", "i", "n">>, as), as, PNone) :
     as \in {s \in SeqsOver(ArgPool, 1, MaxArgs) : Distinct(s)}}

One ==
  Class(<<"O", "n", "e">>, AutoDoc,
        <<Field("foo", <<"f", "o", "o">>, OptionalStr, PNone, Options, TRUE)>>, PNone)
SubTwo ==
  Class(<<"S", "u", "b", "T", "w", "o">>, Doc(<<"T">>, <<"B">>),
        <<Field("bar", <<"b", "a", "r">>, OptionalStr, PNone, Options, TRUE),
          Field("n", <<"n">>, IntT, PInt(1), Options, TRUE)>>, PNone)
\* a class decorated @cappa.command(name="one")
NamedOne == Class(<<"N", "a", "m", "e", "d", "O", "n", "e">>, NoDoc, <<>>, PStr(<<"o", "n", "e">>))
\* a class whose options do not pass the group check
Clash ==
  Class(<<"C", "l", "a", "s", "h">>, NoDoc,
        <<Field("a", <<"a">>, StrT, PNone, Options, TRUE),
          Field("b", <<"b">>, StrT, PNone, OptionsLate, TRUE)>>, PNone)

\* classes without fields, for their names: a run of capitals, a capital
\* outside A-Z, and names given to @cappa.command(name=...)
Acronym == Class(<<"H", "T", "T", "P", "G", "e", "t">>, NoDoc, <<>>, PNone)
Accent == Class(<<"M", "y", "É", "x">>, NoDoc, <<>>, PNone)
Unnamed == Class(<<"U", "n", "n", "a", "m", "e", "d">>, NoDoc, <<>>, PStr(<<>>))
Shout == Class(<<"S", "h", "o", "u", "t">>, NoDoc, <<>>, PStr(<<"U", "P">>))

Parent(classes, required) ==
  Class(<<"A", "p", "p">>, Doc(<<"T">>, <<>>),
        <<Field("verbose", <<"v">>, IntT, PInt(1), Options, TRUE),
          SubcommandField("subcommand", classes, required)>>, PNone)

ParentClasses ==
  {Parent(<<One, SubTwo>>, TRUE), Parent(<<SubTwo, One>>, FALSE), Parent(<<NamedOne>>, TRUE)}

ClassCommands ==
  {CommandGet(c) : c \in ParentClasses \cup {One, SubTwo, Clash, Acronym, Accent, Unnamed, Shout}}

UserCommands == ExplicitCommands \cup ClassCommands

\* Command(cls, help=..., description=...): each omitted, empty or a text
HelpTexts == {PNone, PStr(<<>>), PStr(<<"H">>)}
DescriptionTexts == {PNone, PStr(<<>>), PStr(<<"D">>)}

DocumentedCommands ==
  {[CommandGet(c) EXCEPT !.help = h, !.description = d] :
     c \in {One, SubTwo, NamedOne}, h \in HelpTexts, d \in DescriptionTexts}

\* an explicit arguments list with a Subcommand entry
WithSubcommand ==
  LET as == <<Arg("count", <<"c">>, IntT, Missing, Positional),
              [Arg("name", <<"-", "-", "n">>, OptionalStr, PNone, Options)
                 EXCEPT !.long = TRUE],
              Subcommand("subcommand", TRUE, (<<"o", "n", "e">> :> CommandGet(One)))>>
  IN  Command(ClassOf(<<"M", "a", "i", "n">>, as), as, PNone)

\* Command(..., default_short=..., default_long=...)
FlaggedCommands ==
  {[c EXCEPT !.default_short = short, !.default_long = long] :
     c \in {WithSubcommand, CommandGet(Parent(<<One, SubTwo>>, TRUE)), CommandGet(SubTwo)},
     short \in BOOLEAN, long \in BOOLEAN}

LifeCommands == UserCommands \cup DocumentedCommands \cup FlaggedCommands

HelpArg == MetaArg("help", <<"-", "-", "h", "e", "l", "p">>)
VersionArg == MetaArg("version", <<"-", "-", "v", "e", "r", "s", "i", "o", "n">>)
CompletionArg == MetaArg("completion", <<"-", "-", "c", "o", "m", "p", "l">>)

(***************************************************************************)
(* The life cycle of Command objects: heap[i] is the Command with identity *)
(* i; last is the call made last, the object it was made on, the object it *)
(* returned (0 when it raised) and whether that object is a new one.       *)
(***************************************************************************)

NoCall ==
  [op |-> "", self |-> 0, ret |-> 0, exc |-> "", fresh |-> FALSE, doc_read |-> FALSE,
   meta |-> <<NoArg, NoArg, NoArg>>]

LifeInit ==
  /\ heap \in {<<u>> : u \in LifeCommands}
  /\ last = NoCall

dataclasses_replace_in_place(h, self, changed) == Append([h EXCEPT ![self] = changed], changed)

\* dataclasses.replace(self, **changes): a new object
dataclasses_replace(h, self, changed) == Append(h, changed)

\* Command.collect(heap[self])
Collect(self) ==
  LET r == collect(heap[self])
  IN  IF r.exc # ""
      THEN /\ heap' = heap
           /\ last' = [op |-> "collect", self |-> self, ret |-> 0, exc |-> r.exc,
                       fresh |-> FALSE, doc_read |-> consults_doc(heap[self]),
                       meta |-> <<NoArg, NoArg, NoArg>>]
      ELSE /\ Len(heap) < MaxObjects
           /\ heap' = dataclasses_replace(heap, self, r.command)
           /\ last' = [op |-> "collect", self |-> self, ret |-> Len(heap) + 1, exc |-> "",
                       fresh |-> TRUE, doc_read |-> consults_doc(heap[self]),
                       meta |-> <<NoArg, NoArg, NoArg>>]

\* heap[self].add_meta_actions(help, version, completion)
AddMetaActions(self, help, version, completion) ==
  IF heap[self].collected
  THEN /\ heap' = heap
       /\ last' = [op |-> "add_meta_actions", self |-> self, ret |-> self, exc |-> "",
                   fresh |-> FALSE, doc_read |-> FALSE,
                   meta |-> <<help, version, completion>>]
  ELSE /\ Len(heap) < MaxObjects
       /\ heap' = dataclasses_replace(heap, self,
                                      add_meta_actions(heap[self], help, version, completion))
       /\ last' = [op |-> "add_meta_actions", self |-> self, ret |-> Len(heap) + 1,
                   exc |-> "", fresh |-> TRUE, doc_read |-> FALSE,
                   meta |-> <<help, version, completion>>]

MetaChoices == {<<HelpArg, NoArg, NoArg>>, <<HelpArg, VersionArg, CompletionArg>>,
                <<NoArg, NoArg, NoArg>>}

(***************************************************************************)
(* Command.map_result.                                                     *)
(***************************************************************************)
Put(f, k, val) == [n \in DOMAIN f \cup {k} |-> IF n = k THEN val ELSE f[n]]

NoKwargs == [n \in {} |-> PNone]

\* Command.value_arguments
value_arguments_args_only(self) ==
  SelectSeq(self.arguments, LAMBDA arg : arg.kind = "Arg" /\ arg.action \notin value_actions)

\* every argument, the meta actions too
value_arguments_all(self) == self.arguments

value_arguments(self) ==
  SelectSeq(self.arguments, LAMBDA arg : ~(arg.kind = "Arg" /\ arg.action \in value_actions))

\* an instance of a command class and the values of its fields
PInstance(cls, fields) == [t |-> "instance", v |-> <<cls.name, fields>>]

\* cmd_cls(**kwargs): the __init__ a dataclass generates
Construct(cls, kwargs) ==
  LET names == {cls.fields[i].name : i \in 1..Len(cls.fields)}
      fieldOf(n) == cls.fields[CHOOSE i \in 1..Len(cls.fields) : cls.fields[i].name = n]
  IN  IF \E n \in DOMAIN kwargs : n \notin names
      THEN Raise("TypeError", <<"__init__() got an unexpected keyword argument">>)
      ELSE IF \E n \in names : n \notin DOMAIN kwargs /\ fieldOf(n).default.t = "missing"
      THEN Raise("TypeError", <<"__init__() missing required positional argument">>)
      ELSE Ok(PInstance(cls, [n \in names |->
                                IF n \in DOMAIN kwargs THEN kwargs[n] ELSE fieldOf(n).default]))

\* what map_result did: the outcome (a returned instance, or the exception
\* raised: its class, and for an Exit its code, message and prog), the keyword
\* arguments built so far, the values handed to arg.parse and the classes
\* whose constructor was called, in order
Mapped(out, kwargs, parsed, constructed) ==
  [ok |-> out.ok, val |-> out.val, exc |-> out.exc, msg |-> out.msg, code |-> 0,
   kwargs |-> kwargs, parsed |-> parsed, constructed |-> constructed]

\* Exit(message, code=..., prog=...)
Exit(names, reason, code, prog, kwargs, parsed, constructed) ==
  [ok |-> FALSE, val |-> PNone, exc |-> "Exit",
   msg |-> [text |-> "Invalid value for", names |-> names, reason |-> reason, prog |-> prog],
   code |-> code, kwargs |-> kwargs, parsed |-> parsed, constructed |-> constructed]

\* a prompt is called, then an Env is evaluated
ResolvePromptFirst(val) ==
  LET answered == IF val.t = "Prompt" THEN val.v ELSE val
  IN  IF answered.t = "Env" THEN answered.v ELSE answered

\* an Env is evaluated, then a prompt is called
Resolve(val) ==
  LET evaluated == IF val.t = "Env" THEN val.v ELSE val
  IN  IF evaluated.t = "Prompt" THEN evaluated.v ELSE evaluated

ArgValueNoDefault(arg, parsed_args) ==
  IF arg.field_name \in DOMAIN parsed_args THEN parsed_args[arg.field_name] ELSE PNone

\* the raw value of an argument: the parsed one, or the default
ArgValue(arg, parsed_args) ==
  IF arg.field_name \in DOMAIN parsed_args THEN parsed_args[arg.field_name]
  ELSE arg.default

CaughtValueErrorOnly(exc) == exc = "ValueError"

\* except Exception: every exception class of the model derives from Exception
Caught(exc) == exc \in {"ValueError", "TypeError", "KeyError", "IndexError", "AssertionError"}

ParseArgRaw(arg, val) == Ok(val)

\* arg.parse(value)
ParseArg(arg, val) == Apply(arg.parse, val)

RECURSIVE map_result(_, _, _, _), map_arguments(_, _, _, _, _, _, _, _)

\* Subcommand.map_result: the chosen option maps the rest of the result
SubcommandMapResult(arg, prog, val) ==
  IF val.t # "dict" THEN Mapped(Raise("TypeError", <<"pop">>), NoKwargs, <<>>, <<>>)
  ELSE IF val.v[1] \notin DOMAIN arg.options
  THEN Mapped(Raise("KeyError", val.v[1]), NoKwargs, <<>>, <<>>)
  ELSE map_result(arg.options[val.v[1]], arg.options[val.v[1]], prog, val.v[2])

\* the loop of map_result from value argument i on
map_arguments(args, cmd, prog, parsed_args, i, kwargs, parsed, constructed) ==
  IF i > Len(args)
  THEN Mapped(Construct(cmd.cmd_cls, kwargs), kwargs, parsed,
              Append(constructed, cmd.cmd_cls.name))
  ELSE LET arg == args[i]
           present == arg.field_name \in DOMAIN parsed_args
       IN  IF ~present /\ arg.kind = "Subcommand"
           THEN map_arguments(args, cmd, prog, parsed_args, i + 1, kwargs, parsed, constructed)
           ELSE IF ~present /\ arg.default.t = "missing"
           THEN Mapped(Raise("AssertionError", <<>>), kwargs, parsed, constructed)
           ELSE LET val == Resolve(ArgValue(arg, parsed_args))
                IN  IF arg.kind = "Subcommand"
                    THEN LET sub == SubcommandMapResult(arg, prog, val)
                         IN  IF ~sub.ok
                             THEN [sub EXCEPT !.kwargs = kwargs,
                                              !.parsed = parsed \o sub.parsed,
                                              !.constructed = constructed \o sub.constructed]
                             ELSE map_arguments(args, cmd, prog, parsed_args, i + 1,
                                                Put(kwargs, arg.field_name, sub.val),
                                                parsed \o sub.parsed,
                                                constructed \o sub.constructed)
                    ELSE LET r == ParseArg(arg, val)
                             seen == Append(parsed, [arg |-> arg, val |-> val])
                         IN  IF ~r.ok /\ Caught(r.exc)
                             THEN Exit(arg.names, r.msg, 2, prog, kwargs, seen, constructed)
                             ELSE IF ~r.ok THEN Mapped(r, kwargs, seen, constructed)
                             ELSE map_arguments(args, cmd, prog, parsed_args, i + 1,
                                                Put(kwargs, arg.field_name, r.val),
                                                seen, constructed)

map_result(self, cmd, prog, parsed_args) ==
  map_arguments(value_arguments(self), cmd, prog, parsed_args, 1, NoKwargs, <<>>, <<>>)

(***************************************************************************)
(* The backend that turns argv into raw values keyed by field.  It is an   *)
(* external collaborator of Command.parse_command; the model keeps its     *)
(* contract: an option name takes the next token as its value, a           *)
(* subcommand name hands the rest of argv to the option's Command, any     *)
(* other token fills the next positional, defaults are left out of the     *)
(* result, and a missing required argument is an Exit.                     *)
(***************************************************************************)
\* longest argv
MaxArgv == 3

BackendOk(parsed_args, parsed_command) ==
  [exit |-> FALSE, parsed_args |-> parsed_args, parsed_command |-> parsed_command,
   text |-> "", names |-> {}, code |-> 0]

BackendExit(text, names, code, cmd) ==
  [exit |-> TRUE, parsed_args |-> NoKwargs, parsed_command |-> cmd,
   text |-> text, names |-> names, code |-> code]

ArgsOf(cmd) == {cmd.arguments[i] : i \in 1..Len(cmd.arguments)}

LongArgs(cmd, tok) == {a \in ArgsOf(cmd) : a.kind = "Arg" /\ a.long /\ a.names = tok}

SubcommandsWith(cmd, tok) ==
  {a \in ArgsOf(cmd) : a.kind = "Subcommand" /\ tok \in DOMAIN a.options}

\* the positionals not yet filled, in order
OpenPositionals(cmd, parsed_args) ==
  SelectSeq(cmd.arguments,
            LAMBDA a : a.kind = "Arg" /\ ~a.long /\ ~a.short
                       /\ a.field_name \notin DOMAIN parsed_args)

\* the names of the required arguments that got no value
RequiredMissing(cmd, parsed_args) ==
  {a.names : a \in {b \in ArgsOf(cmd) :
                      /\ b.kind = "Arg" /\ b.required
                      /\ b.field_name \notin DOMAIN parsed_args}}
  \cup UNION {DOMAIN a.options :
                a \in {b \in ArgsOf(cmd) :
                         /\ b.kind = "Subcommand" /\ b.required
                         /\ b.field_name \notin DOMAIN parsed_args}}

BackendFinish(cmd, parsed_args, parsed_command) ==
  IF RequiredMissing(cmd, parsed_args) # {}
  THEN BackendExit("the following arguments are required",
                   RequiredMissing(cmd, parsed_args), 2, cmd)
  ELSE BackendOk(parsed_args, parsed_command)

RECURSIVE backend(_, _, _, _)
backend(cmd, argv, i, parsed_args) ==
  IF i > Len(argv) THEN BackendFinish(cmd, parsed_args, cmd)
  ELSE IF LongArgs(cmd, argv[i]) # {}
  THEN LET a == CHOOSE b \in LongArgs(cmd, argv[i]) : TRUE
       IN  IF a.action \in value_actions
           THEN BackendExit(a.action, {}, 0, cmd)
           ELSE IF i = Len(argv)
           THEN BackendExit("expected one argument", {a.names}, 2, cmd)
           ELSE backend(cmd, argv, i + 2, Put(parsed_args, a.field_name, PStr(argv[i + 1])))
  ELSE IF SubcommandsWith(cmd, argv[i]) # {}
  THEN LET a == CHOOSE b \in SubcommandsWith(cmd, argv[i]) : TRUE
           sub == backend(a.options[argv[i]], argv, i + 1, NoKwargs)
       IN  IF sub.exit THEN sub
           ELSE BackendFinish(cmd,
                              Put(parsed_args, a.field_name, PDict(argv[i], sub.parsed_args)),
                              sub.parsed_command)
  ELSE IF OpenPositionals(cmd, parsed_args) # <<>>
  THEN backend(cmd, argv, i + 1,
               Put(parsed_args, OpenPositionals(cmd, parsed_args)[1].field_name, PStr(argv[i])))
  ELSE BackendExit("unrecognized arguments", {argv[i]}, 2, cmd)

(***************************************************************************)
(* Command.parse_command.  events lists what happened, in order; output    *)
(* lists the calls of output.exit: the Exit, and the command and prog the  *)
(* help was formatted for.                                                 *)
(***************************************************************************)
Ran(events, out, parsed_args, output, returned) ==
  [events |-> events, out |-> out, parsed_args |-> parsed_args, output |-> output,
   returned |-> returned]

NotRun == Ran(<<>>, Mapped(NoOutcome, NoKwargs, <<>>, <<>>), NoKwargs, <<>>, FALSE)

BackendExitOutcome(b, prog) ==
  [Mapped(Raise("Exit", <<>>), NoKwargs, <<>>, <<>>) EXCEPT
     !.msg = [text |-> b.text, names |-> b.names, reason |-> <<>>, prog |-> prog],
     !.code = b.code]

\* output.exit without the help of the command
OutputExitBare(out, cmd, prog) == [exit |-> out.msg, code |-> out.code, help |-> <<>>, prog |-> prog]

\* output.exit(e, help=format_help(command, prog), short_help=...)
OutputExit(out, cmd, prog) == [exit |-> out.msg, code |-> out.code, help |-> real_name(cmd), prog |-> prog]

parse_command_swallow_exit(cmd, argv) ==
  LET prog == real_name(cmd)
      b == backend(cmd, argv, 1, NoKwargs)
      m == map_result(cmd, cmd, prog, b.parsed_args)
  IN  Ran(<<"backend", "map_result", "return">>, m, b.parsed_args, <<>>, TRUE)

parse_command(cmd, argv) ==
  LET prog == real_name(cmd)
      b == backend(cmd, argv, 1, NoKwargs)
  IN  IF b.exit
      THEN LET e == BackendExitOutcome(b, prog)
           IN  Ran(<<"backend", "output.exit", "raise">>, e, NoKwargs,
                   <<OutputExit(e, b.parsed_command, prog)>>, FALSE)
      ELSE LET m == map_result(cmd, cmd, prog, b.parsed_args)
           IN  IF m.ok
               THEN Ran(<<"backend", "map_result", "return">>, m, b.parsed_args, <<>>, TRUE)
               ELSE IF m.exc = "Exit"
               THEN Ran(<<"backend", "map_result", "output.exit", "raise">>, m, b.parsed_args,
                        <<OutputExit(m, cmd, prog)>>, FALSE)
               ELSE Ran(<<"backend", "map_result", "raise">>, m, b.parsed_args, <<>>, FALSE)

(***************************************************************************)
(* One run: a collected command is parsed from an argv, or its map_result  *)
(* is called with raw values.                                              *)
(***************************************************************************)
\* the commands cappa runs: collected, with the help action added
Prepared(u) == add_meta_actions(collect(u).command, HelpArg, NoArg, NoArg)

RunCommands == {Prepared(u) : u \in {w \in UserCommands : collect(w).exc = ""}}

ArgValues == {<<"1">>, <<"a">>}

ArgvTokens(cmd) ==
  LET longs(c) == {a.names : a \in {b \in ArgsOf(c) : b.kind = "Arg" /\ b.long}}
      options == UNION {{a.options[n] : n \in DOMAIN a.options} :
                          a \in {b \in ArgsOf(cmd) : b.kind = "Subcommand"}}
  IN  longs(cmd) \cup UNION {longs(o) : o \in options}
        \cup {real_name(o) : o \in options} \cup ArgValues

\* raw values as a backend, or a caller of map_result, may hand them over
RawValues == {PStr(<<"1">>), PStr(<<"a">>), EnvOf(PStr(<<"a">>)), PromptOf(PStr(<<"1">>))}

RawArgs(cmd) ==
  LET names == {a.field_name : a \in {b \in ArgsOf(cmd) : b.kind = "Arg"}}
  IN  UNION {[given -> RawValues] : given \in SUBSET names}

NoRunCall == [op |-> "", argv |-> <<>>]

RunInit ==
  /\ run_command \in RunCommands
  /\ run_call = NoRunCall
  /\ run_result = NotRun

\* Command.parse_command(run_command, argv=argv)
ParseCommand(argv) ==
  /\ run_call = NoRunCall
  /\ run_call' = [op |-> "parse_command", argv |-> argv]
  /\ run_result' = parse_command(run_command, argv)
  /\ UNCHANGED run_command

\* run_command.map_result(run_command, prog, parsed_args)
MapResult(parsed_args) ==
  /\ run_call = NoRunCall
  /\ run_call' = [op |-> "map_result", argv |-> <<>>]
  /\ run_result' =
       LET m == map_result(run_command, run_command, real_name(run_command), parsed_args)
       IN  Ran(<<"map_result">>, m, parsed_args, <<>>, m.ok)
  /\ UNCHANGED run_command

\* run_command.real_name()
RealName ==
  /\ run_call = NoRunCall
  /\ run_call' = [op |-> "real_name", argv |-> <<>>]
  /\ run_result' = Ran(<<"real_name">>,
                       Mapped(Ok(PStr(real_name(run_command))), NoKwargs, <<>>, <<>>),
                       NoKwargs, <<>>, TRUE)
  /\ UNCHANGED run_command

(***************************************************************************)
(* Methods as subcommands (tests/subcommand/test_method.py).  The class,   *)
(* its methods and the dependency are the test's; the decorator, the       *)
(* backend and the invocation with dependencies are not part of the source *)
(* tree and follow the specification.                                      *)
(***************************************************************************)
\* longest argv handed to parse
MaxMethodArgv == 3

some_dep == 5

\* an instance of the dataclass; add and subtract are its bound methods
HasExecutableMethods(arg, include_dep) ==
  [arg |-> arg, include_dep |-> include_dep,
   add |-> [t |-> "method", v |-> "add"],
   subtract |-> [t |-> "method", v |-> "subtract"]]

\* bool(x) of a bound method: an object without __bool__ and __len__
MethodTruth(x) == x.t = "method"

\* HasExecutableMethods.add
add(self, dep) == IF MethodTruth(self.add) THEN self.arg + dep ELSE self.arg

\* HasExecutableMethods.subtract
subtract(self, dep) == IF MethodTruth(self.add) THEN self.arg - dep ELSE self.arg

AddToken == <<"a", "d", "d">>
SubtractToken == <<"s", "u", "b", "t", "r", "a", "c", "t">>
IncludeDepToken == <<"-", "-", "i", "n", "c", "l", "u", "d", "e", "-", "d", "e", "p">>

\* the methods registered with @cappa.command, by the token that selects them
MethodNames == {AddToken, SubtractToken}

\* the method is called on the instance with its Dep parameter fulfilled
InvokeFirstMethod(name, self) == add(self, some_dep)

InvokeMethod(name, self) ==
  IF name = AddToken THEN add(self, some_dep) ELSE subtract(self, some_dep)

NoInstance == [arg |-> 0, include_dep |-> FALSE]
MethodExit(code) ==
  [returned |-> FALSE, val |-> 0, code |-> code, invoked |-> <<>>, self |-> NoInstance]
MethodNotRun ==
  [returned |-> FALSE, val |-> 0, code |-> 0, invoked |-> <<>>, self |-> NoInstance]

\* index of the first token naming a method, 0 when there is none
SelectedAt(argv) ==
  IF \E i \in 1..Len(argv) : argv[i] \in MethodNames
  THEN CHOOSE i \in 1..Len(argv) :
         argv[i] \in MethodNames /\ \A j \in 1..(i - 1) : argv[j] \notin MethodNames
  ELSE 0

\* the positional tokens before the selected method
Positionals(argv) ==
  {i \in 1..(SelectedAt(argv) - 1) : argv[i] # IncludeDepToken}

\* parse(HasExecutableMethods, *argv): the parent's arguments are parsed, the
\* instance is built from them and the selected method is invoked on it
parse_method(argv) ==
  LET at == SelectedAt(argv)
      pos == Positionals(argv)
  IN  IF at = 0 \/ at < Len(argv) \/ Cardinality(pos) # 1 THEN MethodExit(2)
      ELSE LET raw == argv[CHOOSE i \in pos : TRUE]
               parsed == PyInt(PStr(raw))
               flag == \E i \in 1..(at - 1) : argv[i] = IncludeDepToken
           IN  IF ~parsed.ok THEN MethodExit(2)
               ELSE LET self == HasExecutableMethods(parsed.val.v, flag)
                    IN  [returned |-> TRUE, val |-> InvokeMethod(argv[at], self),
                         code |-> 0, invoked |-> <<argv[at]>>,
                         self |-> [arg |-> self.arg, include_dep |-> self.include_dep]]

MethodTokens ==
  {<<"1", "0">>, <<"3">>, <<"a">>, IncludeDepToken, AddToken, SubtractToken}

MethodArgvs == SeqsOver(MethodTokens, 1, MaxMethodArgv)

MethodIdle == method_argv = <<>> /\ method_result = MethodNotRun

MethodInit == MethodIdle

\* parse(HasExecutableMethods, *argv, backend=backend)
ParseMethod(argv) ==
  /\ method_argv = <<>>
  /\ method_argv' = argv
  /\ method_result' = parse_method(argv)

(***************************************************************************)
(* The front-end (cappa/web).  cappa.collect and cappa.parse live in       *)
(* cappa/base.py, UserCommandData in cappa/web/data.py: neither is part of *)
(* the source tree; cappa.collect is Command.get, Command.collect and      *)
(* add_meta_actions in a row.                                              *)
(***************************************************************************)
NoApp == [pc |-> "none", command |-> CommandGet(One), app_name |-> <<>>, exc |-> ""]
NoForm == [called |-> FALSE, exc |-> "", posted |-> <<>>]

\* cappa.collect(obj): <<exc, command, the Commands Command.collect ran on>>
cappa_collect(obj) ==
  LET r == collect(obj)
  IN  [exc |-> r.exc, collected |-> <<obj>>,
       command |-> IF r.exc = "" THEN add_meta_actions(r.command, HelpArg, NoArg, NoArg)
                   ELSE obj]

\* getattr(obj, name) raises AttributeError for a name the object lacks
HasAttr(obj, name) == name \in DOMAIN obj

\* CommandBuilder.__init__ reads command.subcommand
CommandBuilderInit(command) ==
  IF HasAttr(command, "subcommand") THEN "" ELSE "AttributeError"

\* ParameterControls.get_values: both branches end without a return
get_values(arg) == PNone

\* CommandForm._form_changed up to post_message: the exception it raises, ""
\* when it reaches post_message.  No control is composed for a Subcommand
\* entry, so query_one finds none.
form_changed(command) ==
  IF command.arguments = <<>> THEN "NameError"
  ELSE IF command.arguments[1].kind = "Subcommand" THEN "NoMatches"
  ELSE IF get_values(command.arguments[1]) = PNone THEN "AttributeError"
  ELSE "NameError"

(***************************************************************************)
(* cappa/typing.py: the metadata of Annotated[X, ...] and find_annotations. *)
(***************************************************************************)
\* the longest metadata list of a type view
MaxMeta == 2

\* kind is None
NoKind == "None"

\* a metadata entry: an object of a class, or the class itself
Instance(cls, state) == [is_type |-> FALSE, cls |-> cls, state |-> state]
ClassObj(cls) == [is_type |-> TRUE, cls |-> cls, state |-> <<>>]

\* the classes a class inherits from, itself included
mro(cls) == {cls, "object"}

\* isinstance(annotation, kind): a class is an object of type
isinstance(entry, kind) ==
  IF entry.is_type THEN kind \in {"type", "object"}
  ELSE kind \in mro(entry.cls)

\* isinstance(annotation, type) and issubclass(annotation, kind)
issubclass(entry, kind) == entry.is_type /\ kind \in mro(entry.cls)

\* annotation(): Doc has a field without a default, the others have none
Call(cls) ==
  IF cls = "Doc"
  THEN Raise("TypeError", <<"__init__() missing required positional argument">>)
  ELSE Ok(Instance(cls, <<>>))

RECURSIVE find_annotations_loop(_, _, _, _)
find_annotations_loop(metadata, kind, i, result) ==
  IF i > Len(metadata) THEN Ok(result)
  ELSE LET entry == metadata[i]
           kept == IF isinstance(entry, kind)
                   THEN Append(result, entry) ELSE result
       IN  IF issubclass(entry, kind)
           THEN LET made == Call(entry.cls)
                IN  IF ~made.ok THEN made
                    ELSE find_annotations_loop(metadata, kind, i + 1,
                                               Append(kept, made.val))
           ELSE find_annotations_loop(metadata, kind, i + 1, kept)

\* only the entries that are objects of kind, the classes left out
find_annotations_instances(type_view, kind) ==
  IF kind = NoKind THEN Ok(<<>>)
  ELSE Ok(SelectSeq(type_view.metadata, LAMBDA a : isinstance(a, kind)))

find_annotations(type_view, kind) ==
  IF kind = NoKind THEN Ok(<<>>)
  ELSE find_annotations_loop(type_view.metadata, kind, 1, <<>>)

\* Annotated[X, cappa.Arg(long=True)], cappa.Subcommand(), Doc("text"), a
\* plain string, and the bare classes
MetadataEntries ==
  {Instance("Arg", <<"long">>), Instance("Subcommand", <<>>),
   Instance("Doc", <<"text">>), Instance("str", <<"text">>),
   ClassObj("Arg"), ClassObj("Subcommand"), ClassObj("Doc")}

Kinds == {NoKind, "Arg", "Subcommand", "Doc", "object"}

FindIdle ==
  /\ find_view = [metadata |-> <<>>] /\ find_kind = NoKind /\ find_result = <<>>

FindInit ==
  /\ find_view \in {[metadata |-> m] : m \in SeqsOver(MetadataEntries, 0, MaxMeta)}
  /\ find_kind \in Kinds
  /\ find_result = <<>>

FindAnnotations ==
  /\ find_result = <<>>
  /\ find_result' = <<find_annotations(find_view, find_kind)>>
  /\ UNCHANGED <<find_view, find_kind>>

WebIdle ==
  /\ web_cls = CommandGet(One) /\ web_collected = <<>>
  /\ web_app = NoApp /\ web_form = NoForm

WebInit ==
  /\ web_cls \in LifeCommands
  /\ web_collected = <<>> /\ web_app = NoApp /\ web_form = NoForm

\* cappa.parse(cls): the schema is collected before the backend runs
ParseCollect ==
  /\ web_app.pc = "none"
  /\ \E c \in {cappa_collect(web_cls)} :
       /\ web_collected' = c.collected
       /\ web_app' = [pc |-> IF c.exc = "" THEN "parsed" ELSE "raised",
                      command |-> c.command, app_name |-> <<>>, exc |-> c.exc]
  /\ UNCHANGED <<web_cls, web_form>>

\* web(cls) up to app.run(): cappa.collect(cls), then Web.__init__, which
\* calls cappa.collect on the Command it is handed
Web ==
  /\ web_app.pc = "none"
  /\ \E first \in {cappa_collect(web_cls)} :
       IF first.exc # ""
       THEN /\ web_collected' = first.collected
            /\ web_app' = [pc |-> "raised", command |-> first.command,
                           app_name |-> <<>>, exc |-> first.exc]
       ELSE \E second \in {cappa_collect(first.command)} :
              /\ web_collected' = first.collected \o second.collected
              /\ web_app' = [pc |-> IF second.exc = "" THEN "init" ELSE "raised",
                             command |-> second.command,
                             app_name |-> IF second.exc = "" THEN real_name(second.command)
                                          ELSE <<>>,
                             exc |-> second.exc]
  /\ UNCHANGED <<web_cls, web_form>>

\* Web.on_mount: push_screen(CommandBuilder(self.command, self.app_name))
OnMount ==
  /\ web_app.pc = "init"
  /\ LET exc == CommandBuilderInit(web_app.command)
     IN  web_app' = [web_app EXCEPT !.pc = IF exc = "" THEN "mounted" ELSE "raised",
                                    !.exc = exc]
  /\ UNCHANGED <<web_cls, web_collected, web_form>>

\* CommandForm(command=command)._form_changed()
FormChanged(command) ==
  /\ web_app.pc \in {"init", "mounted"}
  /\ ~web_form.called
  /\ LET exc == form_changed(command)
     IN  web_form' = [called |-> TRUE, exc |-> exc,
                     posted |-> IF exc = "" THEN <<[name |-> real_name(command)]>>
                                ELSE <<>>]
  /\ UNCHANGED <<web_cls, web_collected, web_app>>

(***************************************************************************)
(* The specifications.                                                     *)
(***************************************************************************)
ParseIdle ==
  /\ annotation = NoneT /\ value = PNone /\ handler = ""
  /\ parser = NoParser /\ outcome = NoOutcome /\ pc = "idle"

LifeIdle == heap = <<>> /\ last = NoCall

RunIdle == run_command = CommandGet(One) /\ run_call = NoRunCall /\ run_result = NotRun

\* the life cycle of Command objects
Init == LifeInit /\ ParseIdle /\ RunIdle /\ MethodIdle /\ WebIdle /\ FindIdle

Next ==
  \/ \E self \in DOMAIN heap : Collect(self) /\ UNCHANGED <<pvars, rvars, mvars, wvars, fvars>>
  \/ \E self \in DOMAIN heap, m \in MetaChoices :
       AddMetaActions(self, m[1], m[2], m[3]) /\ UNCHANGED <<pvars, rvars, mvars, wvars, fvars>>

Spec == Init /\ [][Next]_vars

\* the derivation engine
InitParse == ParseInit /\ LifeIdle /\ RunIdle /\ MethodIdle /\ WebIdle /\ FindIdle

NextParse ==
  \/ BuildParser /\ UNCHANGED <<cvars, rvars, mvars, wvars, fvars>>
  \/ WrapOptional /\ UNCHANGED <<cvars, rvars, mvars, wvars, fvars>>
  \/ CallParser /\ UNCHANGED <<cvars, rvars, mvars, wvars, fvars>>

SpecParse == InitParse /\ [][NextParse]_vars

\* one run of a collected command
InitRun == RunInit /\ ParseIdle /\ LifeIdle /\ MethodIdle /\ WebIdle /\ FindIdle

NextRun ==
  \/ \E argv \in SeqsOver(ArgvTokens(run_command), 0, MaxArgv) :
       ParseCommand(argv) /\ UNCHANGED <<pvars, cvars, mvars, wvars, fvars>>
  \/ \E parsed_args \in RawArgs(run_command) :
       MapResult(parsed_args) /\ UNCHANGED <<pvars, cvars, mvars, wvars, fvars>>
  \/ RealName /\ UNCHANGED <<pvars, cvars, mvars, wvars, fvars>>

SpecRun == InitRun /\ [][NextRun]_vars

\* parses of HasExecutableMethods
InitMethod == MethodInit /\ ParseIdle /\ LifeIdle /\ RunIdle /\ WebIdle /\ FindIdle

NextMethod ==
  \E argv \in MethodArgvs : ParseMethod(argv) /\ UNCHANGED <<pvars, cvars, rvars, wvars, fvars>>

SpecMethod == InitMethod /\ [][NextMethod]_vars

\* one use of a CLI class
InitWeb == WebInit /\ ParseIdle /\ LifeIdle /\ RunIdle /\ MethodIdle /\ FindIdle

NextWeb ==
  \/ ParseCollect /\ UNCHANGED <<pvars, cvars, rvars, mvars, fvars>>
  \/ Web /\ UNCHANGED <<pvars, cvars, rvars, mvars, fvars>>
  \/ OnMount /\ UNCHANGED <<pvars, cvars, rvars, mvars, fvars>>
  \/ \E command \in {web_cls, web_app.command} :
       FormChanged(command) /\ UNCHANGED <<pvars, cvars, rvars, mvars, fvars>>

SpecWeb == InitWeb /\ [][NextWeb]_vars

\* one call of find_annotations
InitFind == FindInit /\ ParseIdle /\ LifeIdle /\ RunIdle /\ MethodIdle /\ WebIdle

NextFind == FindAnnotations /\ UNCHANGED <<pvars, cvars, rvars, mvars, wvars>>

SpecFind == InitFind /\ [][NextFind]_vars

(***************************************************************************)
(* Properties of Command.collect and Command.add_meta_actions (checked     *)
(* under Spec).                                                            *)
(***************************************************************************)
\* two Arg entries carry groups of one name that do not match
GroupClash(args) ==
  \E i, j \in 1..Len(args) :
    /\ i < j
    /\ args[i].kind = "Arg" /\ args[j].kind = "Arg"
    /\ args[i].group.name = args[j].group.name
    /\ GroupsDiffer(args[i].group, args[j].group)

\* C2: collect raises ValueError exactly when two Arg entries of the command
\* carry groups of the same name that do not match; in a Command that collect
\* returned, two Args whose groups share a name have the same Group details.
C2_CollectChecksGroups ==
  last.op = "collect" =>
    LET derived == DerivedArguments(heap[last.self])
    IN  /\ derived.exc = "" =>
             ((last.exc = "ValueError") <=> GroupClash(derived.arguments))
        /\ last.exc = "" =>
             LET args == heap[last.ret].arguments
             IN  \A i, j \in 1..Len(args) :
                   (/\ args[i].kind = "Arg" /\ args[j].kind = "Arg"
                    /\ args[i].group.name = args[j].group.name)
                   => (/\ args[i].group.order = args[j].group.order
                       /\ args[i].group = args[j].group)

\* collect raised for two groups of one name whose details differ
C2_Witness ==
  /\ last.op = "collect" /\ last.exc = "ValueError"
  /\ LET args == DerivedArguments(heap[last.self]).arguments
     IN  \E i, j \in 1..Len(args) :
           /\ args[i].kind = "Arg" /\ args[j].kind = "Arg"
           /\ args[i].group.name = args[j].group.name
           /\ args[i].group.order # args[j].group.order

C4_AlwaysACopy ==
  (last.op \in {"collect", "add_meta_actions"} /\ last.exc = "") => last.fresh

\* C4: a Command is never mutated after creation: a call of collect or
\* add_meta_actions leaves every Command that exists unchanged, and what it
\* returns is a new Command, except that add_meta_actions returns the Command
\* itself when its collected flag is set.
C4_NeverMutated ==
  [][/\ \A i \in DOMAIN heap : i \in DOMAIN heap' /\ heap'[i] = heap[i]
     /\ (last'.op \in {"collect", "add_meta_actions"} /\ last'.exc = "") =>
          IF last'.op = "add_meta_actions" /\ heap[last'.self].collected
          THEN last'.ret = last'.self
          ELSE last'.ret \notin DOMAIN heap /\ last'.ret \in DOMAIN heap']_vars

\* add_meta_actions was called on the Command an earlier call returned, and
\* returned a copy with more arguments than the Command it was given
C4_Witness ==
  /\ last.op = "add_meta_actions" /\ last.fresh
  /\ last.self > 1
  /\ Len(heap[last.ret].arguments) > Len(heap[last.self].arguments)
  /\ ~heap[last.self].collected /\ heap[last.ret].collected

(***************************************************************************)
(* Properties of Command.map_result and Command.parse_command (checked     *)
(* under SpecRun).                                                         *)
(***************************************************************************)
\* the non-Subcommand value arguments of the command run
ValueArgs == SelectSeq(run_command.arguments, LAMBDA a : a.kind = "Arg" /\ a.action = "set")

\* no later value argument has the field name of argument i
LastOfField(args, i) ==
  \A j \in (i + 1)..Len(args) : args[j].field_name # args[i].field_name

\* a raw value once an Env is evaluated and then a prompt is answered
Resolved(v) ==
  LET evaluated == IF v.t = "Env" THEN v.v ELSE v
  IN  IF evaluated.t = "Prompt" THEN evaluated.v ELSE evaluated

\* the fields of the instance map_result returned
ResultFields == run_result.out.val.v[2]

\* C1, as stated: kwargs[field_name] equals arg.parse(parsed_args[field_name])
\* for every non-Subcommand value argument whose field_name is a key of
\* parsed_args
C1_ParsedAsStated ==
  (run_call.op \in {"parse_command", "map_result"} /\ run_result.out.ok) =>
    \A i \in 1..Len(ValueArgs) :
      ValueArgs[i].field_name \in DOMAIN run_result.parsed_args =>
        LET r == Apply(ValueArgs[i].parse, run_result.parsed_args[ValueArgs[i].field_name])
        IN  r.ok /\ run_result.out.kwargs[ValueArgs[i].field_name] = r.val

\* C1: map_result builds the result as cmd_cls(**kwargs), where for every
\* non-Subcommand value argument whose field_name is a key of parsed_args,
\* and which is the last value argument of that field, kwargs[field_name] is
\* arg.parse applied to parsed_args[field_name] once an Env in it is evaluated
\* and a prompt called; no raw value reaches the constructor.
C1_ParsedValuesReachConstructor ==
  (run_call.op \in {"parse_command", "map_result"} /\ run_result.out.ok) =>
    /\ run_result.out.val = Construct(run_command.cmd_cls, run_result.out.kwargs).val
    /\ \A i \in 1..Len(ValueArgs) :
         (/\ ValueArgs[i].field_name \in DOMAIN run_result.parsed_args
          /\ LastOfField(ValueArgs, i)) =>
           LET f == ValueArgs[i].field_name
               r == Apply(ValueArgs[i].parse, Resolved(run_result.parsed_args[f]))
           IN  /\ r.ok
               /\ run_result.out.kwargs[f] = r.val
               /\ ResultFields[f] = r.val

\* a raw string became an int on its way to the constructor
C1_Witness ==
  /\ run_call.op = "map_result" /\ run_result.out.ok
  /\ \E i \in 1..Len(ValueArgs) :
       /\ ValueArgs[i].field_name \in DOMAIN run_result.parsed_args
       /\ run_result.parsed_args[ValueArgs[i].field_name].t = "str"
       /\ ResultFields[ValueArgs[i].field_name].t = "int"

\* C5: when arg.parse raises for the value of an argument, map_result raises
\* Exit with code 2 and the message "Invalid value for '<names>': <text of the
\* exception>", and the constructor of the command class is not called.
C5_ParseFailureIsExit ==
  run_call.op \in {"parse_command", "map_result"} =>
    \A k \in 1..Len(run_result.out.parsed) :
      LET e == run_result.out.parsed[k]
          r == Apply(e.arg.parse, e.val)
      IN  ~r.ok =>
            /\ k = Len(run_result.out.parsed)
            /\ run_result.out.exc = "Exit"
            /\ run_result.out.code = 2
            /\ run_result.out.msg.text = "Invalid value for"
            /\ run_result.out.msg.names = e.arg.names
            /\ run_result.out.msg.reason = r.msg
            /\ \A c \in 1..Len(run_result.out.constructed) :
                 run_result.out.constructed[c] # run_command.cmd_cls.name
            /\ ~run_result.returned
            /\ ~run_result.out.ok

\* a parser raised something other than ValueError and map_result raised Exit
C5_Witness ==
  /\ run_call.op = "map_result"
  /\ run_result.out.exc = "Exit" /\ run_result.out.code = 2
  /\ Len(run_result.out.parsed) >= 1
  /\ LET e == run_result.out.parsed[Len(run_result.out.parsed)]
     IN  Apply(e.arg.parse, e.val).exc \in {"TypeError", "KeyError"}

\* the Subcommand entries of the command run
RunSubcommands == {a \in ArgsOf(run_command) : a.kind = "Subcommand"}

\* the Arg of the field f in a command
ArgOfField(cmd, f) == CHOOSE a \in ArgsOf(cmd) : a.kind = "Arg" /\ a.field_name = f

\* C6: when the subcommand token of argv is the real name of one of the
\* classes of a Subcommand field, the parse yields a parent instance whose
\* subcommand field is an instance of exactly that class, built from the
\* options that follow the token.
C6_SubcommandDispatch ==
  run_call.op = "parse_command" =>
    \A s \in RunSubcommands :
      s.field_name \in DOMAIN run_result.parsed_args =>
        LET chosen == run_result.parsed_args[s.field_name]
            token == chosen.v[1]
            given == chosen.v[2]
            argv == run_call.argv
        IN  /\ token \in DOMAIN s.options
            /\ real_name(s.options[token]) = token
            /\ \E k \in 1..Len(argv) :
                 /\ argv[k] = token
                 /\ \A f \in DOMAIN given : \E m \in (k + 1)..Len(argv) : argv[m] = given[f].v
            /\ run_result.out.exc # "Exit" =>
                 /\ run_result.returned /\ run_result.out.ok
                 /\ LET inst == ResultFields[s.field_name]
                    IN  /\ inst.t = "instance"
                        /\ inst.v[1] = s.options[token].cmd_cls.name
                        /\ \A f \in DOMAIN given :
                             inst.v[2][f] = Apply(ArgOfField(s.options[token], f).parse,
                                                  given[f]).val

\* the second class of the union was chosen and built from an option after
\* the token
C6_Witness ==
  /\ run_call.op = "parse_command" /\ run_result.returned
  /\ \E s \in RunSubcommands :
       /\ Cardinality(DOMAIN s.options) = 2
       /\ s.field_name \in DOMAIN run_result.parsed_args
       /\ DOMAIN run_result.parsed_args[s.field_name].v[2] # {}
       /\ ResultFields[s.field_name].v[1] = SubTwo.name
       /\ ResultFields[s.field_name].v[2]["n"].t = "int"

\* argv is a list of options of the command, each with its value
OnlyOptions(cmd, argv) ==
  /\ Len(argv) % 2 = 0
  /\ \A k \in 1..Len(argv) :
       k % 2 = 1 => \E a \in LongArgs(cmd, argv[k]) : a.action = "set"

C8_DefaultAsStated ==
  (run_call.op \in {"parse_command", "map_result"} /\ run_result.out.ok) =>
    \A i \in 1..Len(ValueArgs) :
      ValueArgs[i].field_name \notin DOMAIN run_result.parsed_args =>
        LET r == Apply(ValueArgs[i].parse, ValueArgs[i].default)
        IN  /\ ValueArgs[i].default.t # "missing"
            /\ r.ok
            /\ ResultFields[ValueArgs[i].field_name] = r.val

\* C8: when the field_name of a non-Subcommand argument is absent from
\* parsed_args, map_result uses arg.default, which is not the missing
\* sentinel, evaluates it when it is an Env and calls it when it is a prompt,
\* and the field of the instance equals arg.parse of that value.
C8_DefaultIsParsed ==
  (run_call.op \in {"parse_command", "map_result"} /\ run_result.out.ok) =>
    \A i \in 1..Len(ValueArgs) :
      ValueArgs[i].field_name \notin DOMAIN run_result.parsed_args =>
        /\ ValueArgs[i].default.t # "missing"
        /\ \E k \in 1..Len(run_result.out.parsed) :
             /\ run_result.out.parsed[k].arg = ValueArgs[i]
             /\ run_result.out.parsed[k].val = Resolved(ValueArgs[i].default)
        /\ LastOfField(ValueArgs, i) =>
             LET r == Apply(ValueArgs[i].parse, Resolved(ValueArgs[i].default))
             IN  r.ok /\ ResultFields[ValueArgs[i].field_name] = r.val

\* an Optional[str] option with the default None was not given, and the
\* field of the instance is None
C8_Witness ==
  /\ run_call.op = "parse_command" /\ run_result.returned
  /\ \E i \in 1..Len(ValueArgs) :
       /\ ValueArgs[i].field_name \notin DOMAIN run_result.parsed_args
       /\ ValueArgs[i].parse = parse_value(OptionalStr)
       /\ ValueArgs[i].default.t = "NoneType"
       /\ ResultFields[ValueArgs[i].field_name].t = "NoneType"

(***************************************************************************)
(* Properties of Command.real_name (checked under SpecRun).                *)
(***************************************************************************)
\* the letters A-Z
AsciiUppers == {UpperCase[i] : i \in 1..Len(UpperCase)}

\* the uppercase letters of the names in the model
AllUppers == AsciiUppers \cup {"É"}

\* the letters of uppers among s[2..i]
UppersUpTo(s, i, uppers) == Cardinality({j \in 2..i : s[j] \in uppers})

\* n is s with a dash before every letter of uppers but one at position 0,
\* lowercased
IsDashCase(s, n, uppers) ==
  /\ Len(n) = Len(s) + UppersUpTo(s, Len(s), uppers)
  /\ \A i \in 1..Len(s) :
       /\ n[i + UppersUpTo(s, i, uppers)] = Lower(s[i])
       /\ (i > 1 /\ s[i] \in uppers) => n[i + UppersUpTo(s, i, uppers) - 1] = "-"

\* the options of a Subcommand are keyed by the real names of their commands
SelectedByRealName(uppers) ==
  run_call.op = "parse_command" =>
    \A s \in RunSubcommands : \A token \in DOMAIN s.options :
      IF s.options[token].name # PNone THEN token = s.options[token].name.v
      ELSE IsDashCase(s.options[token].cmd_cls.name, token, uppers)

\* C13: real_name returns the explicit name whenever name is not None,
\* otherwise the class name with a dash before every uppercase letter but one
\* at position 0, lowercased; it is the token that selects the command as a
\* subcommand.
C13_RealNameAsStated ==
  /\ run_call.op = "real_name" =>
       IF run_command.name # PNone
       THEN run_result.out.val.v = run_command.name.v
       ELSE IsDashCase(run_command.cmd_cls.name, run_result.out.val.v, AllUppers)
  /\ SelectedByRealName(AllUppers)

\* what the code does: real_name returns the explicit name whenever name is
\* not None, otherwise the class name with a dash before every letter A-Z but
\* one at position 0, lowercased; it is the token that selects the command as
\* a subcommand.
RealNameDashesAsciiOnly ==
  /\ run_call.op = "real_name" =>
       IF run_command.name # PNone
       THEN run_result.out.val.v = run_command.name.v
       ELSE IsDashCase(run_command.cmd_cls.name, run_result.out.val.v, AsciiUppers)
  /\ SelectedByRealName(AsciiUppers)

\* a class registered with name="one" was selected by the token one
SelectedByExplicitName ==
  /\ run_call.op = "parse_command" /\ run_result.returned
  /\ run_call.argv = <<<<"o", "n", "e">>>>
  /\ \E s \in RunSubcommands :
       /\ s.field_name \in DOMAIN run_result.parsed_args
       /\ ResultFields[s.field_name].v[1] = NamedOne.name

\* the name of a class with a run of capitals was converted
AcronymDashed ==
  /\ run_call.op = "real_name"
  /\ run_command.cmd_cls = Acronym
  /\ run_result.out.val.v = <<"h", "-", "t", "-", "t", "-", "p", "-", "g", "e", "t">>

(***************************************************************************)
(* Properties of methods as subcommands (checked under SpecMethod).        *)
(***************************************************************************)
Ten == <<"1", "0">>

\* the include_dep flag stands before the method on the command line
FlagGiven == \E i \in 1..Len(method_argv) : method_argv[i] = IncludeDepToken

\* the instance the parent's arguments describe
ParentInstance ==
  HasExecutableMethods(
    IntOfStr(method_argv[CHOOSE i \in 1..Len(method_argv) :
                           method_argv[i] \notin MethodNames \cup {IncludeDepToken}]),
    FlagGiven)

C15_AddAsStated ==
  (method_result.returned /\ method_result.invoked = <<AddToken>>) =>
    /\ method_argv = <<Ten, AddToken>> => method_result.val = 10
    /\ method_argv = <<Ten, IncludeDepToken, AddToken>> => method_result.val = 15
    /\ method_result.val =
         IF method_result.self.include_dep THEN method_result.self.arg + some_dep
         ELSE method_result.self.arg

\* C16: with some_dep() = 5, ["10", "subtract"] returns 10 and
\* ["10", "--include-dep", "subtract"] returns 15.
C16_SubtractAsStated ==
  (method_result.returned /\ method_result.invoked = <<SubtractToken>>) =>
    /\ method_argv = <<Ten, SubtractToken>> => method_result.val = 10
    /\ method_argv = <<Ten, IncludeDepToken, SubtractToken>> => method_result.val = 15

(***************************************************************************)
(* Properties of the help, the description and the default flags of a     *)
(* collected Command (checked under Spec).                                 *)
(***************************************************************************)
\* the headline and the long description of the docstring of a class; the
\* docstring dataclasses generates counts as none
Headline(cls) == IF cls.doc.kind = "text" THEN PStr(cls.doc.summary) ELSE PStr(<<>>)
LongDescription(cls) == IF cls.doc.kind = "text" THEN PStr(cls.doc.body) ELSE PStr(<<>>)

\* C17, as stated: help and description come from the docstring only when
\* omitted; one supplied is preserved unchanged, and the docstring is not
\* read when both are supplied.
C17_DocOnlyWhenOmitted ==
  (last.op = "collect" /\ last.exc = "") =>
    LET given == heap[last.self]
        got == heap[last.ret]
    IN  /\ got.help = IF given.help = PNone THEN Headline(given.cmd_cls) ELSE given.help
        /\ got.description =
             IF given.description = PNone THEN LongDescription(given.cmd_cls)
             ELSE given.description
        /\ (given.help # PNone /\ given.description # PNone) => ~last.doc_read

\* C17: collect fills help from the docstring's headline and description from
\* its long description when the respective field is None or empty; a
\* non-empty help or description is preserved unchanged, and the docstring is
\* not read when both are non-empty. The docstring dataclasses generates
\* counts as no docstring.
C17_DocWhenNoneOrEmpty ==
  (last.op = "collect" /\ last.exc = "") =>
    LET given == heap[last.self]
        got == heap[last.ret]
        omitted(x) == x \in {PNone, PStr(<<>>)}
    IN  /\ got.help = IF omitted(given.help) THEN Headline(given.cmd_cls) ELSE given.help
        /\ got.description =
             IF omitted(given.description) THEN LongDescription(given.cmd_cls)
             ELSE given.description
        /\ last.doc_read <=> (omitted(given.help) \/ omitted(given.description))
        /\ given.cmd_cls.doc = AutoDoc =>
             /\ omitted(given.help) => got.help = PStr(<<>>)
             /\ omitted(given.description) => got.description = PStr(<<>>)

\* a class with a docstring was collected with a help of its own and no
\* description: the help was kept and the description came from the docstring
C17_Witness ==
  /\ last.op = "collect" /\ last.exc = ""
  /\ heap[last.self].cmd_cls = SubTwo
  /\ heap[last.self].help = PStr(<<"H">>) /\ heap[last.self].description = PNone
  /\ heap[last.ret].help = PStr(<<"H">>)
  /\ heap[last.ret].description = PStr(<<"B">>)
  /\ last.doc_read

\* the Arg of a field among the collected arguments
ArgsOfField(args, name) ==
  {i \in 1..Len(args) : args[i].kind = "Arg" /\ args[i].field_name = name}

\* C18: default_short and default_long are applied to every Arg of the
\* collected command, to the supplied arguments as to those derived from the
\* class fields, and never to a Subcommand entry.
C18_DefaultFlagsOnArgs ==
  (last.op = "collect" /\ last.exc = "") =>
    LET given == heap[last.self]
        args == heap[last.ret].arguments
        fields == given.cmd_cls.fields
    IN  /\ \A i \in 1..Len(args) :
             IF args[i].kind = "Arg"
             THEN /\ given.default_short => args[i].short
                  /\ given.default_long => args[i].long
             ELSE ~args[i].short /\ ~args[i].long
        /\ given.arguments # <<>> =>
             /\ Len(args) = Len(given.arguments)
             /\ \A i \in 1..Len(args) :
                  IF args[i].kind = "Arg"
                  THEN args[i] = [given.arguments[i] EXCEPT
                                    !.short = @ \/ given.default_short,
                                    !.long = @ \/ given.default_long]
                  ELSE args[i] = given.arguments[i]
        /\ given.arguments = <<>> =>
             \A f \in 1..Len(fields) :
               fields[f].classes = <<>> =>
                 /\ ArgsOfField(args, fields[f].name) # {}
                 /\ \A i \in ArgsOfField(args, fields[f].name) :
                      /\ args[i].short = given.default_short
                      /\ args[i].long = (fields[f].long \/ given.default_long)

\* supplied arguments with a Subcommand entry were collected under
\* default_short and default_long: the positional Arg got both
C18_Witness ==
  /\ last.op = "collect" /\ last.exc = ""
  /\ heap[last.self].default_short /\ heap[last.self].default_long
  /\ heap[last.self].arguments # <<>>
  /\ \E i, j \in 1..Len(heap[last.ret].arguments) :
       /\ heap[last.ret].arguments[i].kind = "Subcommand"
       /\ heap[last.ret].arguments[j].kind = "Arg"
       /\ ~heap[last.self].arguments[j].long
       /\ heap[last.ret].arguments[j].short /\ heap[last.ret].arguments[j].long

\* the Args of the fields of a class got the flags of its command
C18_WitnessDerived ==
  /\ last.op = "collect" /\ last.exc = ""
  /\ heap[last.self].default_short /\ heap[last.self].arguments = <<>>
  /\ \E i, j \in 1..Len(heap[last.ret].arguments) :
       /\ heap[last.ret].arguments[i].kind = "Subcommand"
       /\ heap[last.ret].arguments[j].kind = "Arg"
       /\ heap[last.ret].arguments[j].short

(***************************************************************************)
(* Properties of the front-end (checked under SpecWeb).                    *)
(***************************************************************************)
\* C19: the schema of a CLI class is built exactly once per use: in one
\* parse and in one launch of web(cls), Command.collect runs once for the
\* class, and the Command it gave is the one used afterwards.
C19_CollectedOnce ==
  web_app.pc \in {"parsed", "init", "mounted"} =>
    /\ Len(web_collected) = 1
    /\ web_collected[1] = web_cls
    /\ \A i \in 1..Len(web_collected) : ~web_collected[i].collected

\* a parse collects once
ParseCollectsOnce ==
  web_app.pc = "parsed" => (web_collected = <<web_cls>> /\ web_app.command.collected)

\* C20: _form_changed builds the UserCommandData of the command and posts
\* exactly one CommandForm.Changed message carrying it.
C20_FormChangedPostsOne ==
  web_form.called =>
    /\ web_form.exc = ""
    /\ Len(web_form.posted) = 1

(***************************************************************************)
(* Properties of the container parsers (checked under SpecParse).          *)
(***************************************************************************)
\* the parser of T applied to the i-th element of the input
ElementOutcome(i) == Apply(parse_value(annotation.args[1]), ItemsOf(value)[i])

\* the first element the parser of T rejects, 0 when it accepts them all
FirstRejected ==
  LET n == Len(ItemsOf(value))
  IN  IF \A i \in 1..n : ElementOutcome(i).ok THEN 0
      ELSE CHOOSE i \in 1..n :
             ~ElementOutcome(i).ok /\ \A j \in 1..(i - 1) : ElementOutcome(j).ok

\* C21: the parsers of list[T], set[T] and tuple[T, ...] apply the parser of
\* T to every element of the input sequence: the list has the length and
\* order of the input, the variadic tuple is tuple() of the list, the set is
\* the set of the mapped elements; an error raised for an element propagates
\* and no partial container is returned.
C21_ContainersMapEveryElement ==
  (/\ pc = "called"
   /\ parser.fn \in {"list_mapper", "set_mapper", "unbounded_tuple_mapper"}
   /\ Iterable(value)) =>
    LET n == Len(ItemsOf(value))
        mapped == [i \in 1..n |-> ElementOutcome(i).val]
    IN  IF FirstRejected = 0
        THEN /\ outcome.ok
             /\ parser.fn = "list_mapper" => outcome.val = PList(mapped)
             /\ parser.fn = "unbounded_tuple_mapper" => outcome.val = PTuple(mapped)
             /\ parser.fn = "set_mapper" => outcome.val = PSet({mapped[i] : i \in 1..n})
             /\ parser.fn # "set_mapper" => Len(outcome.val.v) = n
        ELSE /\ ~outcome.ok
             /\ outcome.val = PNone
             /\ outcome.exc = ElementOutcome(FirstRejected).exc
             /\ outcome.msg = ElementOutcome(FirstRejected).msg

\* list[int] took two tokens and gave two ints in their order
C21_Witness ==
  /\ pc = "called" /\ parser.fn = "list_mapper"
  /\ annotation = ListOf(IntT)
  /\ value = PList(<<PStr(<<"1">>), PStr(<<"1">>)>>)
  /\ outcome.ok /\ outcome.val = PList(<<PInt(1), PInt(1)>>)

\* tuple[int, ...] met a token that is no int: the error came out
VariadicTupleRejected ==
  /\ pc = "called" /\ parser.fn = "unbounded_tuple_mapper"
  /\ value = PList(<<PStr(<<"1">>), PStr(<<"a">>)>>)
  /\ annotation = VarTupleOf(IntT)
  /\ ~outcome.ok /\ outcome.exc = "ValueError"

(***************************************************************************)
(* Properties of the parsers for None and for optional values (checked     *)
(* under SpecParse).                                                       *)
(***************************************************************************)
\* C22: the parser created for None accepts only None, returning None, and
\* raises ValueError for every other value; parse_optional(parser) returns
\* None for None without calling parser and parser(value) for every other
\* value.
C22_NoneAndOptional ==
  pc = "called" =>
    /\ parser.fn = "map_none" =>
         IF value = PNone THEN outcome.ok /\ outcome.val = PNone
         ELSE ~outcome.ok /\ outcome.exc = "ValueError" /\ outcome.msg = PyStr(value)
    /\ parser.fn = "optional_mapper" =>
         IF value = PNone
         THEN outcome.ok /\ outcome.val = PNone /\ outcome.calls = <<>>
         ELSE LET r == Apply(parse_value(annotation), value)
              IN  /\ outcome.calls = <<1>>
                  /\ outcome.ok = r.ok /\ outcome.val = r.val
                  /\ outcome.exc = r.exc /\ outcome.msg = r.msg

\* parse_optional over a class whose constructor fails on None gave None
C22_Witness ==
  /\ pc = "called" /\ parser.fn = "optional_mapper"
  /\ annotation = FragileT /\ value = PNone
  /\ ~Apply(parse_value(annotation), value).ok
  /\ outcome.ok /\ outcome.val = PNone

\* the parser for None turned False down
NoneParserRejectedFalse ==
  /\ pc = "called" /\ parser.fn = "map_none" /\ value = PBool(FALSE)
  /\ ~outcome.ok /\ outcome.exc = "ValueError"

(***************************************************************************)
(* Properties of Command.parse_command (checked under SpecRun).            *)
(***************************************************************************)
\* what the backend made of the argv of the call
BackendOfCall == backend(run_command, run_call.argv, 1, NoKwargs)

\* C23: when the backend or map_result raises Exit, output.exit is called
\* exactly once, with the help of e.command (the root command when unset)
\* and e.prog (the root prog when unset), and the Exit is raised again;
\* parse_command returns only when no Exit was raised, and map_result runs
\* only after the backend returned.
C23_ExitReportedOnce ==
  run_call.op = "parse_command" =>
    LET ev == run_result.events
        root == real_name(run_command)
    IN  /\ ev[1] = "backend"
        /\ run_result.out.exc = "Exit" =>
             /\ ~run_result.returned
             /\ Len(run_result.output) = 1
             /\ run_result.output[1].exit = run_result.out.msg
             /\ run_result.output[1].code = run_result.out.code
             /\ run_result.output[1].prog = root
             /\ SubSeq(ev, Len(ev) - 1, Len(ev)) = <<"output.exit", "raise">>
             /\ Cardinality({i \in 1..Len(ev) : ev[i] = "output.exit"}) = 1
             /\ run_result.output[1].help =
                  IF BackendOfCall.exit THEN real_name(BackendOfCall.parsed_command)
                  ELSE root
        /\ run_result.out.exc # "Exit" => run_result.output = <<>>
        /\ run_result.returned =>
             /\ run_result.out.ok
             /\ ev = <<"backend", "map_result", "return">>
             /\ run_result.parsed_args = BackendOfCall.parsed_args
        /\ (\E i \in 1..Len(ev) : ev[i] = "map_result") =>
             /\ ev[2] = "map_result" /\ ~BackendOfCall.exit
             /\ Cardinality({i \in 1..Len(ev) : ev[i] = "map_result"}) = 1
        /\ BackendOfCall.exit => ev = <<"backend", "output.exit", "raise">>

\* map_result raised Exit for a value the backend had accepted: it was
\* reported once and raised again
C23_Witness ==
  /\ run_call.op = "parse_command"
  /\ run_result.events = <<"backend", "map_result", "output.exit", "raise">>
  /\ run_result.out.exc = "Exit" /\ run_result.out.code = 2
  /\ Len(run_result.output) = 1 /\ ~run_result.returned

\* the backend raised Exit: map_result did not run
BackendExitReported ==
  /\ run_call.op = "parse_command"
  /\ run_result.events = <<"backend", "output.exit", "raise">>
  /\ Len(run_result.output) = 1 /\ ~run_result.returned

(***************************************************************************)
(* Properties of Command.add_meta_actions (checked under Spec).            *)
(***************************************************************************)
\* the meta arguments supplied to the call made last, in the order help,
\* version, completion
SuppliedMeta ==
  (IF last.meta[1].kind # "None" THEN <<last.meta[1]>> ELSE <<>>)
    \o (IF last.meta[2].kind # "None" THEN <<last.meta[2]>> ELSE <<>>)
    \o (IF last.meta[3].kind # "None" THEN <<last.meta[3]>> ELSE <<>>)

\* how often an argument occurs in a list of arguments
Occurrences(args, a) == Cardinality({i \in 1..Len(args) : args[i] = a})

\* C24: add_meta_actions is idempotent: the first call returns a copy with
\* the supplied help, version and completion appended in that order after
\* the existing arguments and with _collected set; a later call on that
\* result returns it unchanged, so each meta argument appears at most once.
\* Only help is handed down to the option Commands of Subcommand entries.
C24_MetaActionsOnce ==
  last.op = "add_meta_actions" =>
    LET given == heap[last.self]
        got == heap[last.ret]
        n == Len(given.arguments)
    IN  /\ given.collected => (last.ret = last.self /\ ~last.fresh)
        /\ ~given.collected =>
             /\ last.fresh /\ got.collected
             /\ got = [given EXCEPT !.arguments = got.arguments, !.collected = TRUE]
             /\ got.arguments = SubSeq(got.arguments, 1, n) \o SuppliedMeta
             /\ \A i \in 1..n :
                  IF given.arguments[i].kind = "Subcommand"
                  THEN /\ got.arguments[i] =
                            [given.arguments[i] EXCEPT !.options = got.arguments[i].options]
                       /\ \A name \in DOMAIN given.arguments[i].options :
                            LET old == given.arguments[i].options[name]
                                new == got.arguments[i].options[name]
                            IN  IF last.meta[1].kind = "None" \/ old.collected
                                THEN new = old
                                ELSE new = [old EXCEPT
                                              !.arguments = old.arguments \o <<last.meta[1]>>,
                                              !.collected = TRUE]
                  ELSE got.arguments[i] = given.arguments[i]
        /\ \A a \in {HelpArg, VersionArg, CompletionArg} :
             /\ Occurrences(got.arguments, a) <= 1
             /\ \A i \in 1..Len(got.arguments) :
                  \A name \in DOMAIN got.arguments[i].options :
                    Occurrences(got.arguments[i].options[name].arguments, a) <= 1

\* a second call with all three actions on the result of a first call gave
\* that result back: help is there once
C24_Witness ==
  /\ last.op = "add_meta_actions" /\ last.ret = last.self
  /\ last.meta = <<HelpArg, VersionArg, CompletionArg>>
  /\ heap[last.self].collected
  /\ Occurrences(heap[last.ret].arguments, HelpArg) = 1

\* help, version and completion were added to a command with a Subcommand
\* entry whose options got help only
MetaHandedDown ==
  /\ last.op = "add_meta_actions" /\ last.fresh
  /\ last.meta = <<HelpArg, VersionArg, CompletionArg>>
  /\ \E i \in 1..Len(heap[last.ret].arguments) :
       /\ heap[last.ret].arguments[i].kind = "Subcommand"
       /\ \A name \in DOMAIN heap[last.ret].arguments[i].options :
            /\ Occurrences(heap[last.ret].arguments[i].options[name].arguments, HelpArg) = 1
            /\ Occurrences(heap[last.ret].arguments[i].options[name].arguments, VersionArg) = 0

(***************************************************************************)
(* Properties of the values Command.map_result hands on (checked under     *)
(* SpecRun).                                                               *)
(***************************************************************************)
\* the value map_result starts from for an argument of the command run
RawValueOf(arg) ==
  IF arg.field_name \in DOMAIN run_result.parsed_args
  THEN run_result.parsed_args[arg.field_name]
  ELSE arg.default

\* C25: in map_result a value, taken from parsed_args or from the default,
\* is resolved in a fixed order before it is parsed: an Env is replaced by
\* value.evaluate(), then a prompt is replaced by calling it, and only then
\* arg.parse is applied; arg.parse never receives an Env or a prompt.
C25_ResolvedBeforeParse ==
  run_call.op \in {"parse_command", "map_result"} =>
    \A k \in 1..Len(run_result.out.parsed) :
      LET e == run_result.out.parsed[k]
      IN  /\ e.val.t \notin {"Env", "Prompt"}
          /\ (\E i \in 1..Len(ValueArgs) : ValueArgs[i] = e.arg) =>
               e.val = Resolved(RawValueOf(e.arg))

\* a default that is an Env whose value is a prompt reached arg.parse as the
\* answer to the prompt
C25_Witness ==
  /\ run_call.op = "map_result"
  /\ \E k \in 1..Len(run_result.out.parsed) :
       LET e == run_result.out.parsed[k]
       IN  /\ e.arg.field_name \notin DOMAIN run_result.parsed_args
           /\ e.arg.default = EnvOf(PromptOf(PStr(<<"a">>)))
           /\ e.val = PStr(<<"a">>)

\* the Args of the command run that carry a meta action
MetaArgs == {a \in ArgsOf(run_command) : a.kind = "Arg" /\ a.action \in value_actions}

\* C26: the keyword arguments map_result passes to the constructor never
\* contain the field of an Arg whose action is a meta action (help, version,
\* completion), even if parsed_args has an entry for it; every other Arg of
\* the command contributes exactly one keyword.
C26_NoMetaKeywords ==
  run_call.op \in {"parse_command", "map_result"} =>
    /\ \A a \in MetaArgs : a.field_name \notin DOMAIN run_result.out.kwargs
    /\ run_result.out.ok =>
         /\ \A i \in 1..Len(ValueArgs) :
              ValueArgs[i].field_name \in DOMAIN run_result.out.kwargs
         /\ \A name \in DOMAIN run_result.out.kwargs :
              \E a \in ArgsOf(run_command) \ MetaArgs : a.field_name = name
         /\ \A i \in 1..Len(ValueArgs) :
              Cardinality({k \in 1..Len(run_result.out.parsed) :
                             run_result.out.parsed[k].arg = ValueArgs[i]}) = 1

\* parsed_args had an entry for help and the instance was built without it
C26_Witness ==
  /\ run_call.op = "map_result" /\ run_result.out.ok
  /\ MetaArgs # {}
  /\ \E a \in MetaArgs : a.field_name \in DOMAIN run_result.parsed_args
  /\ DOMAIN run_result.out.kwargs # {}

(***************************************************************************)
(* Properties of the fixed-arity tuple parser (checked under SpecParse).   *)
(***************************************************************************)
\* the smaller of two naturals
Min(a, b) == IF a < b THEN a ELSE b

\* what the parser of the i-th type of the tuple gives for the i-th value
PairedOutcome(i) == Apply(parse_value(annotation.args[i]), ItemsOf(value)[i])

\* how many (type, value) pairs the tuple parser has to go through
PairedCount == Min(Len(annotation.args), Len(ItemsOf(value)))

\* C27: the parser of a fixed-arity tuple[T1..Tn] pairs types with input
\* values by position and does not check arity: for m values it returns a
\* tuple of length min(n, m) whose i-th element is the parser of Ti applied
\* to the i-th value; surplus values are dropped and missing values raise no
\* error.
C27_TuplePairsByPosition ==
  (/\ pc = "called" /\ parser.fn = "tuple_mapper"
   /\ Iterable(value)
   /\ \A i \in 1..PairedCount : PairedOutcome(i).ok) =>
    /\ outcome.ok
    /\ outcome.val.t = "tuple"
    /\ Len(outcome.val.v) = PairedCount
    /\ \A i \in 1..PairedCount : outcome.val.v[i] = PairedOutcome(i).val

\* tuple[int] took two tokens and gave the first alone
C27_Witness ==
  /\ pc = "called" /\ parser.fn = "tuple_mapper"
  /\ annotation = TupleOf(<<IntT>>)
  /\ value = PList(<<PStr(<<"1">>), PStr(<<"a">>)>>)
  /\ outcome.ok /\ outcome.val = PTuple(<<PInt(1)>>)

\* tuple[int, str] took one token and gave a tuple of one, without an error
TupleShortOfValues ==
  /\ pc = "called" /\ parser.fn = "tuple_mapper"
  /\ annotation = TupleOf(<<IntT, StrT>>)
  /\ value = PList(<<PStr(<<"1">>)>>)
  /\ outcome.ok /\ outcome.val = PTuple(<<PInt(1)>>)

(***************************************************************************)
(* Properties of find_annotations (checked under SpecFind).                *)
(***************************************************************************)
\* what one metadata entry adds to the result: itself when it is an object
\* of kind, a default-constructed object when it is a subclass of kind
Contribution(a) ==
  (IF ~a.is_type /\ find_kind \in {a.cls, "object"} THEN <<a>> ELSE <<>>)
    \o (IF a.is_type /\ find_kind = "object" THEN <<a>> ELSE <<>>)
    \o (IF a.is_type /\ find_kind \in {a.cls, "object"}
        THEN <<Instance(a.cls, <<>>)>> ELSE <<>>)

RECURSIVE ContributionsUpTo(_)
ContributionsUpTo(n) ==
  IF n = 0 THEN <<>>
  ELSE ContributionsUpTo(n - 1) \o Contribution(find_view.metadata[n])

\* the metadata with every bare class replaced by a default-constructed object
Instantiated ==
  [i \in 1..Len(find_view.metadata) |->
     IF find_view.metadata[i].is_type
     THEN Instance(find_view.metadata[i].cls, <<>>)
     ELSE find_view.metadata[i]]

\* every class of the metadata that is a subclass of kind can be called
\* without arguments
DefaultConstructible ==
  \A i \in 1..Len(find_view.metadata) :
    (find_view.metadata[i].is_type
       /\ find_kind \in {find_view.metadata[i].cls, "object"})
      => find_view.metadata[i].cls # "Doc"

\* C28: find_annotations(type_view, kind) returns, in metadata order, every
\* metadata entry that is an instance of kind and a default-constructed
\* instance for every entry that is itself a subclass of kind, so that a
\* bare class in Annotated[X, cappa.Subcommand] is treated as
\* cappa.Subcommand() is; it returns an empty list when kind is None.
C28_FindAnnotations ==
  find_result # <<>> =>
    /\ find_kind = NoKind => find_result[1] = Ok(<<>>)
    /\ (find_kind # NoKind /\ DefaultConstructible) =>
         /\ find_result[1].ok
         /\ find_result[1].val = ContributionsUpTo(Len(find_view.metadata))
         /\ find_kind # "object" =>
              find_result[1].val =
                SelectSeq(Instantiated, LAMBDA a : a.cls = find_kind)

\* Annotated[X, cappa.Arg(long=True), cappa.Subcommand] asked for Subcommand
\* gave one Subcommand()
C28_Witness ==
  /\ find_result # <<>>
  /\ find_kind = "Subcommand"
  /\ find_view.metadata = <<Instance("Arg", <<"long">>), ClassObj("Subcommand")>>
  /\ find_result[1] = Ok(<<Instance("Subcommand", <<>>)>>)

\* the bare class and the object give the same list
BareClassAsInstance ==
  /\ find_result # <<>>
  /\ find_kind = "Subcommand"
  /\ find_view.metadata = <<Instance("Subcommand", <<>>)>>
  /\ find_result[1] = Ok(<<Instance("Subcommand", <<>>)>>)

\* kind None gave the empty list for a metadata list that is not empty
NoKindEmpty ==
  /\ find_result # <<>> /\ find_kind = NoKind
  /\ find_view.metadata # <<>>
  /\ find_result[1] = Ok(<<>>)

\* a bare Doc cannot be called without its documentation
BareDocRaises ==
  /\ find_result # <<>> /\ find_kind = "Doc"
  /\ find_view.metadata = <<ClassObj("Doc")>>
  /\ ~find_result[1].ok /\ find_result[1].exc = "TypeError"
====
